---- MODULE Spec2Model ----
(***************************************************************************)
(* Verification model of the MCTS search engines of lc0-builds.            *)
(*                                                                         *)
(* Part A (specification Spec) models the synchronous engine of            *)
(* lc0-alphazero-top-tier-PATCHED.wasm.js: AlphaZeroEngine.processCommand, *)
(* MCTSEngine.search / runSimulation and MCTSNode.                         *)
(*                                                                         *)
(* The board, the move generator and the static evaluator are external to  *)
(* the search core; they are represented by a small fixed game             *)
(* (LegalMoves, PolicyTable, StaticValue, PieceCount).  Floating point     *)
(* quantities are fixed point with three decimals (VScale).                *)
(***************************************************************************)
EXTENDS Integers, Sequences, FiniteSets, TLC

\* ------------------------------------------------------------------ bounds
MaxIter == 3          \* simulations modelled per search
MaxSearches == 2      \* 'go' commands modelled per run
MaxElapsed == 2000    \* the clock is followed this far into a search (ms)
ScenarioSims == 200
MaxUpdates == 1
MaxBookUpdates == 3
ClockStep == 1000
MaxClock == 30000   \* simulations of the two-move scenario
CallNodes == 3         \* the nodes option of the loader's overlapping calls
MaxGameUpdates == 2    \* position updates of the game with a second position
MaxPosted == 4         \* postMessage calls followed
MaxPasses == 3         \* passes of part_000's search loop followed
GoNodeCount == 2       \* the n of the 'go nodes n' commands posted

\* ------------------------------------------------------- program constants
VScale == 1000                    \* fixed point: 1.0 is written 1000
MATE_SCORE == 50000
DefaultSimulations == 2000        \* MCTS_CONFIG.simulations
DefaultMoveTime == 2000           \* let movetime = 2000
DefaultTemperature == 50          \* MCTS_CONFIG.temperature 0.05
EndgameSimulations == 2500        \* MCTS_CONFIG.endgameSimulations
EndgamePieceThreshold == 12       \* MCTS_CONFIG.endgamePieceThreshold
MinVisitsForExpansion == 1        \* MCTS_CONFIG.minVisitsForExpansion
VirtualLossUnit == 3              \* MCTS_CONFIG.virtualLoss
CPuct == 1800                     \* MCTS_CONFIG.cPuct 1.8
EndgameCPuct == 2000              \* MCTS_CONFIG.endgameCPuct 2.0
DirichletEpsilon == 250           \* MCTS_CONFIG.dirichletEpsilon 0.25
TickMs == 1000                    \* granularity at which Date.now() is observed

NoArg == -1                       \* an argument absent from the 'go' line
NoMove == <<>>                    \* search() returning null
BoardRef == 0                     \* a node holding the engine's own Board object

\* ------------------------------------------------- the game (external part)
Positions == 1..6

\* The two-move position: from position 7 the first move leads to 8, worth
\* +0.8 to the side to move at 7, the second to 9, worth -0.5 to it.  Below
\* 8 play alternates between {10, 12} and {8, 14}, below 9 between {11, 13}
\* and {9, 15}, two moves in each position and the value unchanged.
ScenarioRoot == 7
ScenarioPositions == 7..15

\* MoveGenerator.generate(board): the successor position of every move, in
\* generation order.  Positions 3 and 5 have no move.
LegalMoves(p) ==
    CASE p = 1 -> <<2, 3>>
      [] p = 2 -> <<4>>
      [] p = 3 -> <<>>
      [] p = 4 -> <<5>>
      [] p = 5 -> <<>>
      [] p = 6 -> <<5, 4>>
      [] p = 7 -> <<8, 9>>
      [] p \in {8, 14} -> <<10, 12>>
      [] p \in {10, 12} -> <<8, 14>>
      [] p \in {9, 15} -> <<11, 13>>
      [] p \in {11, 13} -> <<9, 15>>

\* A move object, written <<p, q>>: generated in position p, leading to q.
Move(p, k) == <<p, LegalMoves(p)[k]>>

\* board.squares.filter(p => p !== EMPTY).length
PieceCount(p) ==
    CASE p = 1 -> 32
      [] p = 2 -> 31
      [] p = 3 -> 30
      [] p = 4 -> 8
      [] p = 5 -> 7
      [] p = 6 -> 9
      [] OTHER -> 32

IsEndgame(p) == PieceCount(p) < EndgamePieceThreshold

\* The outcome the rules of chess give a position without legal moves:
\* the side to move is mated (position 3) or stalemated (position 5).
GameOutcome(p) ==
    CASE p = 3 -> "loss"
      [] p = 5 -> "draw"
      [] OTHER -> "none"

\* PolicyNetwork.getMovePolicy(board, moves): one prior per move, softmax
\* normalised (fixed point).
PolicyTable(p) ==
    CASE p = 1 -> <<600, 400>>
      [] p = 2 -> <<1000>>
      [] p = 4 -> <<1000>>
      [] p = 6 -> <<500, 500>>
      [] p \in ScenarioPositions -> <<500, 500>>
      [] OTHER -> <<>>

\* Evaluator.normalizeValue(Evaluator.evaluate(board)) = tanh(score / 1000),
\* for the side to move.
StaticValue(p) ==
    CASE p = 1 -> 100
      [] p = 2 -> -300
      [] p = 3 -> -900
      [] p = 4 -> 500
      [] p = 5 -> 0
      [] p = 6 -> 200
      [] p = 7 -> 800
      [] p \in {8, 14} -> -800
      [] p \in {10, 12} -> 800
      [] p \in {9, 15} -> 500
      [] p \in {11, 13} -> -500

\* Normalised noise vectors Math.random() can produce in addDirichletNoise.
NoiseVectors(n) ==
    IF n = 1 THEN {<<1000>>}
    ELSE {<<1000, 0>>, <<0, 1000>>}

VARIABLES
    board,        \* AlphaZeroEngine.board: the position held by the one Board object
    tree,         \* MCTSEngine.root and its descendants, by path of child indices
    simulations,  \* MCTS_CONFIG.simulations
    temperature,  \* MCTS_CONFIG.temperature (fixed point)
    pc,           \* "idle", or "loop" while search() is in its for loop
    iter,         \* the loop variable i of search()
    simLimit,     \* the local simulations of search() after the endgame override
    timeLimit,    \* stopTime - startTime
    elapsed,      \* Date.now() - startTime
                  \* (iter, simLimit, timeLimit and elapsed are search-local:
                  \*  they are 0 whenever no search is running)
    stopSearch,   \* MCTSEngine.stopSearch
    nodes,        \* MCTSEngine.nodes
    result,       \* history: the answer to the last command, if it was a 'go'
    request,      \* history: the 'go' line being served
    searches,     \* history: number of 'go' commands so far
    passCount,    \* history: per node, simulations whose path went through it
    lastSim,      \* history: the last simulation of the running search (leaf, value)
    rootFor,      \* history: the position the root's move list was generated for
    \* --- lc0-wasm-alpha-loader.js: the asynchronous MCTSEngine
    root,         \* MCTSEngine.root and its descendants, by path of child indices
    nodeCount,    \* MCTSEngine.nodeCount
    searchActive, \* MCTSEngine.searchActive
    searchPc,     \* where search() is suspended: "idle" (not running),
                  \* "awaitEvaluate", "awaitExpand" or "awaitIterate"
    options,      \* the options search() was called with
    evalResult,   \* the local evalResult of search()
    iterations,   \* the local iterations of search()
    sinceStart,   \* performance.now() - startTime
    started,      \* history: iterate() calls on the present root
    stopSeen,     \* history: stop() was called during the running search
    rootEval,     \* history: what the inference of search()'s root evaluation handed back
    loaderResult, \* history: what the last search() returned
    loaderSearches, \* history: number of search() calls so far
    \* --- the concrete Board, for the functions that read squares
    squares,      \* Board.squares: piece code by square, 0 = a8 .. 63 = h1
    turn,         \* Board.turn: 1 white, -1 black
    castling,     \* the castling field of the FEN parseFEN filled Board.castling from
    seeMove,      \* history: the capture SEE.evaluate was last called with
    seeGain,      \* history: what that call returned
    children,     \* MCTSNode.children of the node expand() was called on for this board:
                  \* per child its move and prior
    \* --- lichess-lc0-bot.user-stable.js: the bot
    State,        \* the STATE object: engineReady, processingMove, currentFen,
                  \* moveCount (counted up to BookMoveCount + 1), consecutiveErrors,
                  \* and processingTime = Date.now() - STATE.processingStartTime
    timers,       \* the pending setTimeout callbacks, in the order set, with the
                  \* milliseconds until each is due
    watchdog,     \* milliseconds until the setInterval of startWatchdog is due
    searching,    \* the positions the engine was told to search and has not answered
    webSocket,    \* STATE.webSocket: "none", or its readyState "open" or "closed"
    updates,      \* history: number of position updates handled
    lastEvent,    \* history: "recovery" after forceRecovery, "sent" after a move was sent
    lastSent,     \* history: the last move sent (the position it was chosen
                  \* for, and by whom) and STATE.currentFen when it was sent
    awaiting,     \* history: positions reported while the engine was ready
                  \* and not yet given to the engine or answered from the book
    errorPeak,    \* history: the greatest STATE.consecutiveErrors in the last handler
    \* --- lc0-wasm-alpha-loader.js: overlapping calls of search()
    heap,         \* every root node constructed so far with its descendants,
                  \* and by which call it was constructed
    rootRef,      \* MCTSEngine.root: index into heap, 0 for null
    callActive,   \* MCTSEngine.searchActive
    callCount,    \* MCTSEngine.nodeCount
    calls,        \* per call of search(): where it is suspended and its locals
    iterated,     \* history: per root, the iterate() calls that returned on it
                  \* and the sum of the values they backed up into it
    \* --- MCTSNode.getBestMove on given visit counts
    draw,         \* the children's visitCounts, the temperature, Math.random()
                  \* (in quarters) and the index of the child returned
    \* --- unnamed/part_000: the engine behind postMessage and its timers
    posted,       \* the commands handed to postMessage and not yet processed
    goTimers,     \* pending setTimeout callbacks of handleGo
    stopFlag,     \* MCTSEngine.stopSearch
    slice,        \* search(): whether it is running, its loop variable i and
                  \* its simulations argument
    stopReceived, \* history: 'stop' was processed while a 'go' was unanswered
    postCount     \* history: number of postMessage calls so far

engineVars == <<board, tree, simulations, temperature, pc, iter, simLimit,
                timeLimit, elapsed, stopSearch, nodes, result, request,
                searches, passCount, lastSim, rootFor>>

loaderVars == <<root, nodeCount, searchActive, searchPc, options, evalResult,
                iterations, sinceStart, started, stopSeen, rootEval,
                loaderResult, loaderSearches>>

seeVars == <<squares, turn, castling, seeMove, seeGain, children>>

botVars == <<State, timers, watchdog, searching, webSocket, updates,
             lastEvent, errorPeak, lastSent, awaiting>>

\* What the actions of one part of the model leave alone.
callVars == <<heap, rootRef, callActive, callCount, calls, iterated>>

postVars == <<posted, goTimers, stopFlag, slice, stopReceived, postCount>>

notEngineVars == <<loaderVars, seeVars, botVars, callVars, draw, postVars>>
notLoaderVars == <<engineVars, seeVars, botVars, callVars, draw, postVars>>
notSeeVars == <<engineVars, loaderVars, botVars, callVars, draw, postVars>>
notBotVars == <<engineVars, loaderVars, seeVars, callVars, draw, postVars>>
notCallVars == <<engineVars, loaderVars, seeVars, botVars, draw, postVars>>
notDrawVars == <<engineVars, loaderVars, seeVars, botVars, callVars, postVars>>
notPostVars == <<engineVars, loaderVars, seeVars, botVars, callVars, draw>>

vars == <<engineVars, loaderVars, seeVars, botVars, callVars, draw, postVars>>

\* ------------------------------------------------------------------ MCTSNode
NoTree == << >>                   \* this.root = null: no node at all

\* new MCTSNode(board, parent, move, prior)
NewNode(b, move, prior) ==
    [board |-> b, move |-> move, prior |-> prior, nch |-> 0,
     visitCount |-> 0, totalValue |-> 0, virtualLoss |-> 0,
     isExpanded |-> FALSE, isTerminal |-> FALSE, terminalValue |-> 0]

HasRoot(t) == << >> \in DOMAIN t

Parent(path) == SubSeq(path, 1, Len(path) - 1)

\* node.board: the root was constructed with the engine's Board object itself
\* (search passes this.board, the constructor stores the reference, parseFEN
\* and makeMove mutate that object in place); children hold clones.
BoardOf(t, path, b) == IF t[path].board = BoardRef THEN b ELSE t[path].board

\* Integer square root, for Math.sqrt in fixed point.
RECURSIVE SqrtSearch(_, _, _)
SqrtSearch(n, lo, hi) ==
    IF lo >= hi THEN lo
    ELSE LET mid == (lo + hi + 1) \div 2
         IN  IF mid * mid <= n THEN SqrtSearch(n, mid, hi)
             ELSE SqrtSearch(n, lo, mid - 1)

Sqrt1000(n) ==
    SqrtSearch(n * VScale * VScale, 0,
               IF n < 46 THEN (n + 1) * VScale ELSE 46340)

\* MCTSNode.getQ
GetQ(nd) ==
    IF nd.visitCount = 0 THEN 0
    ELSE (nd.totalValue - nd.virtualLoss * VirtualLossUnit * VScale)
             \div (nd.visitCount + nd.virtualLoss)

\* MCTSNode.getU(parentVisits); b is the node's own board
GetU(nd, b, parentVisits) ==
    LET cPuct == IF IsEndgame(b) THEN EndgameCPuct ELSE CPuct
    IN  (((cPuct * nd.prior) \div VScale) * Sqrt1000(parentVisits))
            \div (VScale * (1 + nd.visitCount))

\* MCTSNode.getPUCT
GetPUCT(nd, b, parentVisits) == GetQ(nd) + GetU(nd, b, parentVisits)

\* MCTSNode.selectChild: the first child with the greatest PUCT value
SelectChild(t, path, b) ==
    LET P(k) == GetPUCT(t[Append(path, k)], BoardOf(t, Append(path, k), b),
                        t[path].visitCount)
    IN  CHOOSE k \in 1..t[path].nch :
            /\ \A j \in 1..t[path].nch : P(j) <= P(k)
            /\ \A j \in 1..(k - 1) : P(j) < P(k)

\* Variant of expand without the test of isExpanded.
ExpandUnguarded(t, path, b) ==
    LET pos == BoardOf(t, path, b)
        moves == LegalMoves(pos)
        priors == PolicyTable(pos)
    IN  IF Len(moves) = 0
        THEN [t EXCEPT ![path].isTerminal = TRUE,
                       ![path].terminalValue = -MATE_SCORE * VScale]
        ELSE LET kids == {Append(path, k) : k \in 1..Len(moves)}
             IN  [q \in DOMAIN t \cup kids |->
                     IF q \in kids
                     THEN NewNode(moves[q[Len(q)]], Move(pos, q[Len(q)]),
                                  priors[q[Len(q)]])
                     ELSE IF q = path
                     THEN [t[q] EXCEPT !.isExpanded = TRUE,
                                       !.nch = Len(moves)]
                     ELSE t[q]]

\* MCTSNode.expand
Expand(t, path, b) ==
    IF t[path].isExpanded THEN t
    ELSE LET pos == BoardOf(t, path, b)
             moves == LegalMoves(pos)
             priors == PolicyTable(pos)
         IN  IF Len(moves) = 0
             THEN [t EXCEPT ![path].isTerminal = TRUE,
                            ![path].terminalValue = -MATE_SCORE * VScale]
             ELSE LET kids == {Append(path, k) : k \in 1..Len(moves)}
                  IN  [q \in DOMAIN t \cup kids |->
                          IF q \in kids
                          THEN NewNode(moves[q[Len(q)]], Move(pos, q[Len(q)]),
                                       priors[q[Len(q)]])
                          ELSE IF q = path
                          THEN [t[q] EXCEPT !.isExpanded = TRUE,
                                            !.nch = Len(moves)]
                          ELSE t[q]]

\* MCTSNode.addDirichletNoise with the normalised noise vector nz
AddDirichletNoise(t, path, nz) ==
    IF t[path].nch = 0 THEN t
    ELSE [q \in DOMAIN t |->
            IF Len(q) = Len(path) + 1 /\ Parent(q) = path
            THEN [t[q] EXCEPT !.prior =
                    ((VScale - DirichletEpsilon) * @
                       + DirichletEpsilon * nz[q[Len(q)]]) \div VScale]
            ELSE t[q]]

\* Variant of backpropagate that updates the starting node only.
BackpropagateLeafOnly(t, path, value) ==
    [t EXCEPT ![path].visitCount = @ + 1, ![path].totalValue = @ + value]

\* Variant of backpropagate that hands the value to the parent unnegated.
RECURSIVE BackpropagateNoFlip(_, _, _)
BackpropagateNoFlip(t, path, value) ==
    LET t1 == [t EXCEPT ![path].visitCount = @ + 1,
                        ![path].totalValue = @ + value]
    IN  IF path # << >> THEN BackpropagateNoFlip(t1, Parent(path), value) ELSE t1

\* MCTSNode.backpropagate
RECURSIVE Backpropagate(_, _, _)
Backpropagate(t, path, value) ==
    LET t1 == [t EXCEPT ![path].visitCount = @ + 1,
                        ![path].totalValue = @ + value]
    IN  IF path # << >> THEN Backpropagate(t1, Parent(path), -value) ELSE t1

\* getBestMove(0): the for loop over the children, best being the index of
\* bestChild so far; a child replaces it when its visitCount is greater.
RECURSIVE ScanMostVisited(_, _, _, _)
ScanMostVisited(t, path, i, best) ==
    IF i > t[path].nch THEN best
    ELSE ScanMostVisited(t, path, i + 1,
             IF t[Append(path, i)].visitCount > t[Append(path, best)].visitCount
             THEN i ELSE best)

\* Variant of the loop in which a child with as many visits replaces bestChild.
RECURSIVE ScanMostVisitedLast(_, _, _, _)
ScanMostVisitedLast(t, path, i, best) ==
    IF i > t[path].nch THEN best
    ELSE ScanMostVisitedLast(t, path, i + 1,
             IF t[Append(path, i)].visitCount >= t[Append(path, best)].visitCount
             THEN i ELSE best)

MostVisitedLast(t, path) == ScanMostVisitedLast(t, path, 1, 1)

\* MCTSNode.getBestMove(0): index of the child returned, bestChild starting
\* as children[0]
MostVisited(t, path) == ScanMostVisited(t, path, 1, 1)

\* MCTSNode.getBestMove(temperature): the child indices it can return.  With
\* temperature > 0 the draw Math.random() * sum is 0 (first child) or falls in
\* the weight interval of a child of positive weight visitCount^(1/T).
BestMoveChoices(t, path, temp) ==
    IF temp = 0 THEN {MostVisited(t, path)}
    ELSE {1} \cup {k \in 1..t[path].nch : t[Append(path, k)].visitCount > 0}

\* ------------------------------------- unnamed/part_000: 'go' and 'stop'
NoSlice == [running |-> FALSE, i |-> 0, simulations |-> 0]

\* handleGo: simulations = parseInt(nodes) from 'go nodes n', else
\* MCTS_CONFIG.simulations
GoNodes(cmd) == IF cmd = "go" THEN DefaultSimulations ELSE GoNodeCount

\* search(): for (let i = 0; i < simulations; i++) with
\* if (this.stopSearch || Date.now() >= this.stopTime) break
PassContinues(run, stop, timeUp) ==
    run.i < run.simulations /\ ~(stop \/ timeUp)

\* ------------------------------------- getBestMove with temperature > 0
NoDraw == [visits |-> << >>, temperature |-> 0, random |-> 0, child |-> 0]

\* The visitCounts of one to three children, and the temperatures: the
\* configured 0.05, and 0.5 and 1.
VisitVectors == UNION {[1..n -> {0, 1, 2}] : n \in {1, 2, 3}}
Temperatures == {DefaultTemperature, 500, 1000}

\* Math.pow(b, e) for a whole exponent
RECURSIVE Pow(_, _)
Pow(b, e) == IF e = 0 THEN 1 ELSE b * Pow(b, e - 1)

\* children.map(c => Math.pow(c.visitCount, 1 / temperature))
Weights(visits, temp) == [i \in 1..Len(visits) |-> Pow(visits[i], VScale \div temp)]

\* visits.reduce((a, b) => a + b, 0)
RECURSIVE WeightSum(_)
WeightSum(weights) ==
    IF weights = << >> THEN 0 ELSE Head(weights) + WeightSum(Tail(weights))

\* Variant of the sampling loop that returns on rand < 0.
RECURSIVE SampleExceeding(_, _, _)
SampleExceeding(weights, rand, i) ==
    IF i > Len(weights) THEN Len(weights)
    ELSE IF rand - weights[i] < 0 THEN i
    ELSE SampleExceeding(weights, rand - weights[i], i + 1)

\* The sampling loop of getBestMove: rand -= visits[i]; if (rand <= 0)
\* return children[i].move; after the loop the last child.
RECURSIVE SampleLoop(_, _, _)
SampleLoop(weights, rand, i) ==
    IF i > Len(weights) THEN Len(weights)
    ELSE IF rand - weights[i] <= 0 THEN i
    ELSE SampleLoop(weights, rand - weights[i], i + 1)

\* getBestMove(temperature) with temperature > 0: quarters / 4 is what
\* Math.random() returned, a number in [0, 1)
SampleChild(visits, temp, quarters) ==
    LET weights == Weights(visits, temp)
    IN  SampleLoop(weights, (WeightSum(weights) * quarters) \div 4, 1)

\* ---------------------------------------------------------------- MCTSEngine
\* The selection loop of runSimulation: the node it stops at.
RECURSIVE Descend(_, _, _)
Descend(t, path, b) ==
    IF t[path].isExpanded /\ t[path].nch > 0
    THEN Descend(t, Append(path, SelectChild(t, path, b)), b)
    ELSE path

\* MCTSEngine.evaluatePosition
EvaluatePosition(p) == StaticValue(p)

\* node.backpropagate(v) as runSimulation calls it: the tree after it, the
\* node backpropagation started at and the value it contributed.
BackupFrom(t, node, v) ==
    [tree |-> Backpropagate(t, node, v), leaf |-> node, value |-> v]

\* runSimulation, "Evaluation" and "Backpropagation"
EvaluateAndBackup(t, b, node) ==
    BackupFrom(t, node, EvaluatePosition(BoardOf(t, node, b)))

\* Variant of the step after node.expand() that stays on the expanded node.
AfterExpansionStay(t, b, node) ==
    IF t[node].isTerminal THEN BackupFrom(t, node, t[node].terminalValue)
    ELSE EvaluateAndBackup(t, b, node)

\* runSimulation after node.expand(): a node found terminal backs up its
\* terminalValue, otherwise the simulation moves to children[0]
AfterExpansion(t, b, node) ==
    IF t[node].isTerminal THEN BackupFrom(t, node, t[node].terminalValue)
    ELSE EvaluateAndBackup(t, b,
             IF t[node].nch > 0 THEN Append(node, 1) ELSE node)

\* Variant of runSimulation that expands a node whatever its visitCount.
RunSimulationAtEager(t, b, node) ==
    IF t[node].isTerminal THEN BackupFrom(t, node, t[node].terminalValue)
    ELSE IF ~t[node].isExpanded
    THEN AfterExpansion(Expand(t, node, b), b, node)
    ELSE EvaluateAndBackup(t, b, node)

\* runSimulation from the node the selection loop stopped at
RunSimulationAt(t, b, node) ==
    IF t[node].isTerminal THEN BackupFrom(t, node, t[node].terminalValue)
    ELSE IF t[node].visitCount >= MinVisitsForExpansion /\ ~t[node].isExpanded
    THEN AfterExpansion(Expand(t, node, b), b, node)
    ELSE EvaluateAndBackup(t, b, node)

\* MCTSEngine.runSimulation
RunSimulation(t, b) == RunSimulationAt(t, b, Descend(t, << >>, b))

\* The nodes a simulation went through: the root, every selected child and
\* the node backpropagation started at.
Prefixes(path) == {SubSeq(path, 1, n) : n \in 0..Len(path)}

\* Variant of the 'go' parser without the default for movetime.
GoMoveTimeNoDefault(movetime) == movetime

\* processCommand('go'): let movetime = 2000, overwritten by 'movetime <n>'
GoMoveTime(movetime) == IF movetime = NoArg THEN DefaultMoveTime ELSE movetime

\* processCommand('go'): let simulations = MCTS_CONFIG.simulations,
\* overwritten by 'simulations <n>'
GoSimulations(sims, cfg) == IF sims = NoArg THEN cfg ELSE sims

\* search(): if (isEndgame) simulations = MCTS_CONFIG.endgameSimulations
SearchSimulations(b, sims) == IF IsEndgame(b) THEN EndgameSimulations ELSE sims

\* Variant of the loop test without the for condition i < simulations.
LoopContinuesNoCount(i, limit, stop, now, deadline) ==
    ~(stop \/ now >= deadline)

\* search(): the for condition and the break test at the top of the loop
LoopContinues(i, limit, stop, now, deadline) ==
    /\ i < limit
    /\ ~(stop \/ now >= deadline)

\* search(): "Initialize root"
SearchRoot(t, b) ==
    IF ~HasRoot(t) \/ BoardOf(t, << >>, b) # b
    THEN (<< >> :> NewNode(BoardRef, NoMove, 0))
    ELSE t

\* How the requested position b relates to the tree left by the last search.
RequestKind(t, b, generatedFor) ==
    IF ~HasRoot(t) THEN "first"
    ELSE IF generatedFor = b THEN "same"
    ELSE IF \E k \in 1..t[<< >>].nch : t[<<k>>].board = b THEN "child"
    ELSE "other"

NoSim == [leaf |-> << >>, value |-> 0]
NoRequest == [pos |-> 0, sims |-> NoArg, movetime |-> NoArg, kind |-> "none"]
NoResult == [answered |-> FALSE, pos |-> 0, move |-> NoMove, sims |-> 0,
             kind |-> "none"]

\* ------------------------------------------------ lc0-wasm-alpha-loader.js
\* The asynchronous engine of the loader.  Values (Q, totalValue) are in
\* VScale, priors and PUCT scores in PScale.
PScale == 1000000                 \* fixed point of priors: 1.0 is written 1000000
NaN == -999999999                 \* the float NaN
POLICY_SIZE == 1858
C_PUCT == 2500
VIRTUAL_LOSS == 3
MIN_VISITS_TO_EXPAND == 1
MAX_TREE_NODES == 100000
FPU_REDUCTION == 200
LoaderDirichletEpsilon == 250
DefaultTimeLimitMs == 1000
GeneratedMoves == 40              \* generateLegalMoves stops at 40 moves
MaxChildren == 64                 \* expandNode creates at most 64 children
DefaultPrior == 10000             \* expandNode: policyProbs[i] || 0.01

\* Float addition and negation with NaN.
FAdd(a, b) == IF a = NaN \/ b = NaN THEN NaN ELSE a + b
FNeg(a) == IF a = NaN THEN NaN ELSE -a

\* Math.tanh in VScale, piecewise linear through (0, 0), (0.5, 0.462) and
\* (3, 0.995); Math.tanh(NaN) is NaN.
Tanh(x) ==
    IF x = NaN THEN NaN
    ELSE IF x >= 3000 THEN 995
    ELSE IF x <= -3000 THEN -995
    ELSE IF x > 500 THEN 462 + ((x - 500) * 533) \div 2500
    ELSE IF x < -500 THEN -462 - ((-x - 500) * 533) \div 2500
    ELSE (x * 924) \div 1000

\* NeuralNetwork.softmax on the logit vectors modelled, restricted to the
\* entries expandNode reads: equal logits give 1 / POLICY_SIZE each, one
\* dominant logit gives 1 for it and an underflow to 0 for the others, and a
\* NaN among the logits makes Math.max, every exponential and the sum NaN.
Softmax(logits) ==
    [i \in 1..GeneratedMoves |->
        IF logits = "nan" THEN NaN
        ELSE IF logits = "flat" THEN PScale \div POLICY_SIZE
        ELSE IF i = 1 THEN PScale ELSE 0]

\* NeuralNetwork.emergencyEval
EmergencyEval ==
    [policy |-> [i \in 1..GeneratedMoves |-> PScale \div POLICY_SIZE],
     value |-> 0]

\* NeuralNetwork.evaluate on what the inference wrote: a status other than 0
\* (or a failed allocation) throws inside the try block and the catch
\* returns emergencyEval; otherwise softmax of the logits and tanh of the value.
Evaluate(inf) ==
    IF inf.status # 0 THEN EmergencyEval
    ELSE [policy |-> Softmax(inf.logits), value |-> Tanh(inf.value)]

\* What run_inference can hand back: status, logits, raw value.
Inferences ==
    {[status |-> 0, logits |-> "peaked", value |-> 500],
     [status |-> 0, logits |-> "flat", value |-> -3000],
     [status |-> 1, logits |-> "flat", value |-> 500],
     [status |-> 0, logits |-> "flat", value |-> NaN],
     [status |-> 0, logits |-> "nan", value |-> 500]}

\* new MCTSNode(moveUCI, prior) of the loader
LoaderNode(moveUCI, prior) ==
    [move |-> moveUCI, prior |-> prior, visitCount |-> 0, totalValue |-> 0,
     virtualLoss |-> 0, nch |-> 0, isExpanded |-> FALSE]

\* get Q
LoaderQ(nd) ==
    IF nd.visitCount = 0 THEN 0
    ELSE IF nd.totalValue = NaN THEN NaN
    ELSE nd.totalValue \div nd.visitCount

\* get U (PScale): C_PUCT * prior * sqrt(parent.visitCount) / (1 + visitCount),
\* parentN being 1 for a node without parent
LoaderU(t, q) ==
    LET parentN == IF q = << >> THEN 1 ELSE t[Parent(q)].visitCount
    IN  (((t[q].prior * (C_PUCT \div 100)) \div 10) * (Sqrt1000(parentN) \div 10))
            \div (100 * (1 + t[q].visitCount))

\* get PUCT (PScale), with the first play urgency of an unvisited node
LoaderPUCT(t, q) ==
    FAdd(IF LoaderQ(t[q]) = NaN THEN NaN ELSE LoaderQ(t[q]) * (PScale \div VScale),
         LoaderU(t, q)
           + (IF t[q].visitCount = 0 THEN -FPU_REDUCTION * (PScale \div VScale)
              ELSE 0))

\* selectChild of the loader: the first child whose PUCT exceeds all before
\* it and is not exceeded later (a NaN score is never greater)
LoaderSelectChild(t, path) ==
    LET P(k) == LoaderPUCT(t, Append(path, k))
    IN  CHOOSE k \in 1..t[path].nch :
            /\ P(k) # NaN
            /\ \A j \in 1..t[path].nch : P(j) = NaN \/ P(j) <= P(k)
            /\ \A j \in 1..(k - 1) : P(j) = NaN \/ P(j) < P(k)

\* Variant of addVirtualLoss that adds the loss to visitCount twice.
AddVirtualLossTwice(t, q) ==
    [t EXCEPT ![q].virtualLoss = @ + VIRTUAL_LOSS,
              ![q].visitCount = @ + 2 * VIRTUAL_LOSS,
              ![q].totalValue = FAdd(@, -VIRTUAL_LOSS * VScale)]

\* addVirtualLoss
AddVirtualLoss(t, q) ==
    [t EXCEPT ![q].virtualLoss = @ + VIRTUAL_LOSS,
              ![q].visitCount = @ + VIRTUAL_LOSS,
              ![q].totalValue = FAdd(@, -VIRTUAL_LOSS * VScale)]

\* Variant of revertVirtualLoss that leaves the node as it is.
RevertVirtualLossSkipped(t, q) == t

\* revertVirtualLoss
RevertVirtualLoss(t, q) ==
    [t EXCEPT ![q].virtualLoss = @ - VIRTUAL_LOSS,
              ![q].visitCount = @ - VIRTUAL_LOSS,
              ![q].totalValue = FAdd(@, VIRTUAL_LOSS * VScale)]

\* backup(value)
Backup(t, q, value) ==
    [t EXCEPT ![q].visitCount = @ + 1, ![q].totalValue = FAdd(@, value)]

\* generateLegalMoves: the placeholder list, the same for every board
GenerateLegalMoves == [i \in 1..GeneratedMoves |-> i]

\* expandNode: prior = policyProbs[i % policyProbs.length] || 0.01
PriorOrDefault(p) == IF p = NaN \/ p = 0 THEN DefaultPrior ELSE p

\* expandNode(node, board, policyProbs)
ExpandNode(t, node, policyProbs) ==
    IF t[node].isExpanded THEN t
    ELSE IF Len(GenerateLegalMoves) = 0
    THEN [t EXCEPT ![node].isExpanded = TRUE]
    ELSE LET n == IF Len(GenerateLegalMoves) < MaxChildren
                  THEN Len(GenerateLegalMoves) ELSE MaxChildren
             kids == {Append(node, i) : i \in 1..n}
         IN  [q \in DOMAIN t \cup kids |->
                 IF q \in kids
                 THEN LoaderNode(GenerateLegalMoves[q[Len(q)]],
                                 PriorOrDefault(policyProbs[q[Len(q)]]))
                 ELSE IF q = node
                 THEN [t[q] EXCEPT !.isExpanded = TRUE, !.nch = n]
                 ELSE t[q]]

\* The gammaRandom draws modelled for the children of the root (PScale).
LoaderNoise ==
    {[i \in 1..GeneratedMoves |-> 0],
     [i \in 1..GeneratedMoves |-> IF i = 2 THEN 800000 ELSE 0]}

\* addDirichletNoise(node) of the loader with the draws nz
LoaderAddDirichletNoise(t, node, nz) ==
    IF t[node].nch = 0 THEN t
    ELSE [q \in DOMAIN t |->
            IF Len(q) = Len(node) + 1 /\ Parent(q) = node
            THEN [t[q] EXCEPT !.prior =
                    ((VScale - LoaderDirichletEpsilon) * @
                       + LoaderDirichletEpsilon * nz[q[Len(q)]]) \div VScale]
            ELSE t[q]]

\* backpropagate(path, value): the path in the order it was pushed
RECURSIVE LoaderBackpropagate(_, _, _)
LoaderBackpropagate(t, path, value) ==
    IF path = << >> THEN t
    ELSE LoaderBackpropagate(Backup(t, Head(path), value), Tail(path),
                             FNeg(value))

\* iterate(): "for (let n of path) n.revertVirtualLoss()"
RECURSIVE RevertVirtualLosses(_, _)
RevertVirtualLosses(t, path) ==
    IF path = << >> THEN t
    ELSE RevertVirtualLosses(RevertVirtualLoss(t, Head(path)), Tail(path))

\* The selection loop of iterate(): virtual loss on every node pushed on
\* the path, then the child selected; the node it stops at is not pushed.
RECURSIVE IterateSelect(_, _, _)
IterateSelect(t, node, path) ==
    IF t[node].isExpanded /\ t[node].nch > 0
    THEN LET t1 == AddVirtualLoss(t, node)
         IN  IterateSelect(t1, Append(node, LoaderSelectChild(t1, node)),
                           Append(path, node))
    ELSE [tree |-> t, node |-> node, path |-> path]

\* iterate() after the selection loop stopped at s.node: expansion and
\* evaluation of a visited, unexpanded node (inf is what the inference
\* hands back), otherwise backup of the node's Q; then the virtual losses
\* are reverted.
IterateFrom(s, inf) ==
    RevertVirtualLosses(
        IF ~s.tree[s.node].isExpanded
             /\ s.tree[s.node].visitCount >= MIN_VISITS_TO_EXPAND
        THEN LoaderBackpropagate(
                 ExpandNode(s.tree, s.node, Evaluate(inf).policy),
                 s.path, Evaluate(inf).value)
        ELSE LoaderBackpropagate(s.tree, s.path, LoaderQ(s.tree[s.node])),
        s.path)

\* MCTSEngine.iterate
Iterate(t, inf) == IterateFrom(IterateSelect(t, << >>, << >>), inf)

\* search(): the while condition and the three breaks, its being the value
\* of iterations after iterations++
LoaderLoopContinues(active, its, now, opts, count) ==
    /\ active
    /\ now < opts.timeLimitMs
    /\ ~(opts.nodes # NoArg /\ opts.nodes # 0 /\ its >= opts.nodes)
    /\ count < MAX_TREE_NODES

\* getBestChild: index of the first root child with most visits
GetBestChild(t) ==
    CHOOSE k \in 1..t[<< >>].nch :
        /\ \A j \in 1..t[<< >>].nch :
               t[<<j>>].visitCount <= t[<<k>>].visitCount
        /\ \A j \in 1..(k - 1) : t[<<j>>].visitCount < t[<<k>>].visitCount

NoOptions == [timeLimitMs |-> 0, nodes |-> NoArg]
NoEval == [policy |-> << >>, value |-> 0]
NoInference == [status |-> 0, logits |-> "none", value |-> 0]
NoLoaderResult == [answered |-> FALSE, move |-> 0, nodes |-> 0, stopped |-> FALSE]

\* ------------------------------------- loader: overlapping calls of search()
\* AlphaZeroLoader.bestMove awaits mctsEngine.search on the one MCTSEngine:
\* a caller that does not wait for the first promise has two calls of
\* search() suspended at their awaits, resumed one at a time.
Calls == {1, 2}                   \* a first request and a second one
NoFlight == [ref |-> 0, node |-> << >>, path |-> << >>, eval |-> NoEval]
NoCall == [pc |-> "idle", eval |-> NoEval, nodes |-> NoArg, iterations |-> 0,
           flight |-> NoFlight, lastRef |-> 0, move |-> 0]

\* What the root evaluation of a call hands back: one peaked and one flat
\* policy.
CallInferences ==
    {[status |-> 0, logits |-> "peaked", value |-> 500],
     [status |-> 0, logits |-> "flat", value |-> -3000]}

\* new MCTSNode(null, 1.0)
FreshRoot == << >> :> LoaderNode(0, PScale)

\* Variant of the expansion test of iterate() without the visit count.
ExpandsLeafUnvisited(nd) == ~nd.isExpanded

\* iterate(): !node.isExpanded && node.visitCount >= CONFIG.MIN_VISITS_TO_EXPAND
ExpandsLeaf(nd) == ~nd.isExpanded /\ nd.visitCount >= MIN_VISITS_TO_EXPAND

\* search(board, options) up to "await this.nn.evaluate(board)"
StartSearch(w, c, nd, inf) ==
    [w EXCEPT !.callActive = TRUE,
              !.callCount = 0,
              !.calls[c] = [NoCall EXCEPT !.pc = "awaitEvaluate",
                                          !.eval = Evaluate(inf),
                                          !.nodes = nd]]

\* search() resumed after the root evaluation: this.root = new MCTSNode and
\* the call of expandNode, up to "await this.expandNode"
AfterRootEvaluate(w, c) ==
    LET t == ExpandNode(FreshRoot, << >>, w.calls[c].eval.policy)
    IN  [w EXCEPT !.heap = Append(@, t),
                  !.rootRef = Len(w.heap) + 1,
                  !.callCount = @ + t[<< >>].nch,
                  !.iterated = Append(@, [by |-> c, count |-> 0, value |-> 0]),
                  !.calls[c].pc = "awaitExpand"]

\* search() returns getBestChild() of this.root
ReturnBestChild(w, c) ==
    [w EXCEPT !.calls[c].pc = "returned",
              !.calls[c].move =
                  w.heap[w.rootRef][<<GetBestChild(w.heap[w.rootRef])>>].move]

\* iterate() from its call to its first await, or to its return when it
\* does not expand: the selection with its virtual losses on this.root,
\* then either the suspension in "await this.nn.evaluate" or the backup of
\* node.Q and the reverting of the virtual losses.
CallIterate(w, c) ==
    LET r == w.rootRef
        s == IterateSelect(w.heap[r], << >>, << >>)
        value == LoaderQ(s.tree[s.node])
    IN  IF ExpandsLeaf(s.tree[s.node])
        THEN [w EXCEPT !.heap[r] = s.tree,
                       !.calls[c].pc = "iterateAwaitEvaluate",
                       !.calls[c].lastRef = r,
                       !.calls[c].flight =
                           [ref |-> r, node |-> s.node, path |-> s.path,
                            eval |-> NoEval]]
        ELSE [w EXCEPT !.heap[r] = RevertVirtualLosses(
                                       LoaderBackpropagate(s.tree, s.path, value),
                                       s.path),
                       !.iterated[r].count = @ + 1,
                       !.iterated[r].value = FAdd(@, value),
                       !.calls[c].lastRef = r,
                       !.calls[c].pc = "awaitIterate"]

\* One test of the while loop of search() and what follows it: the return,
\* or iterations++ and the call of iterate.
LoopPass(w, c, timeUp) ==
    LET its == w.calls[c].iterations + 1
        now == IF timeUp THEN DefaultTimeLimitMs ELSE 0
        opts == [timeLimitMs |-> DefaultTimeLimitMs, nodes |-> w.calls[c].nodes]
    IN  IF LoaderLoopContinues(w.callActive, its, now, opts, w.callCount)
        THEN CallIterate([w EXCEPT !.calls[c].iterations = its], c)
        ELSE ReturnBestChild(w, c)

\* iterate() resumed with the result of its evaluation (inf is what the
\* inference handed back): the call of expandNode on the node it selected
AfterLeafEvaluate(w, c, inf) ==
    LET f == w.calls[c].flight
        t == ExpandNode(w.heap[f.ref], f.node, Evaluate(inf).policy)
    IN  [w EXCEPT !.heap[f.ref] = t,
                  !.callCount = @ + t[f.node].nch - w.heap[f.ref][f.node].nch,
                  !.calls[c].flight.eval = Evaluate(inf),
                  !.calls[c].pc = "iterateAwaitExpand"]

\* iterate() resumed after expandNode: backpropagate, revert, return
AfterLeafExpand(w, c) ==
    LET f == w.calls[c].flight
    IN  [w EXCEPT !.heap[f.ref] = RevertVirtualLosses(
                                      LoaderBackpropagate(@, f.path, f.eval.value),
                                      f.path),
                  !.iterated[f.ref].count = @ + 1,
                  !.iterated[f.ref].value = FAdd(@, f.eval.value),
                  !.calls[c].flight = NoFlight,
                  !.calls[c].pc = "awaitIterate"]

\* The call c of search() runs from the await it is suspended at to its
\* next await or to its return.
ResumeCall(w, c, timeUp, inf, nz) ==
    CASE w.calls[c].pc = "awaitEvaluate" -> AfterRootEvaluate(w, c)
      [] w.calls[c].pc = "awaitExpand" ->
             LoopPass([w EXCEPT !.heap[w.rootRef] =
                                    LoaderAddDirichletNoise(@, << >>, nz)],
                      c, timeUp)
      [] w.calls[c].pc = "awaitIterate" -> LoopPass(w, c, timeUp)
      [] w.calls[c].pc = "iterateAwaitEvaluate" -> AfterLeafEvaluate(w, c, inf)
      [] w.calls[c].pc = "iterateAwaitExpand" -> AfterLeafExpand(w, c)

\* ----------------------------------------------------- Board, SEE (concrete)
SeeThreshold == -50
NoSquare == -1                    \* no square: off the board
EMPTY == 0
W_PAWN == 1
W_KNIGHT == 2
W_BISHOP == 3
W_ROOK == 4
W_QUEEN == 5
W_KING == 6
B_PAWN == 7
B_KNIGHT == 8
B_BISHOP == 9
B_ROOK == 10
B_QUEEN == 11
B_KING == 12

\* new Board(): squares = new Array(64).fill(PIECES.EMPTY)
EmptyBoard == [s \in 0..63 |-> EMPTY]

InBoard(s) == s >= 0 /\ s < 64
RankOf(s) == s \div 8
FileOf(s) == s % 8
Abs(x) == IF x < 0 THEN -x ELSE x

\* Board.isWhite, Board.isBlack, Board.getPieceType
IsWhite(piece) == piece >= 1 /\ piece <= 6
IsBlack(piece) == piece >= 7 /\ piece <= 12
GetPieceType(piece) == IF piece = 0 THEN 0 ELSE ((piece - 1) % 6) + 1

\* isOwnPiece / isEnemyPiece for the side to move side
IsOwnPiece(side, piece) == IF side = 1 THEN IsWhite(piece) ELSE IsBlack(piece)
IsEnemyPiece(side, piece) == IF side = 1 THEN IsBlack(piece) ELSE IsWhite(piece)

KnightOffsets == {-17, -15, -10, -6, 6, 10, 15, 17}
KingOffsets == {-9, -8, -7, -1, 1, 7, 8, 9}
OrthDirections == {<<1, 0>>, <<-1, 0>>, <<0, 1>>, <<0, -1>>}
DiagDirections == {<<1, 1>>, <<1, -1>>, <<-1, 1>>, <<-1, -1>>}
Directions == OrthDirections \cup DiagDirections

\* The while (true) walk of isSquareAttacked and generateSlidingMoves: the
\* first occupied square from (r, f) in direction dir, NoSquare at the edge.
RECURSIVE RayHit(_, _, _, _)
RayHit(sq8, r, f, dir) ==
    LET r1 == r + dir[1]
        f1 == f + dir[2]
    IN  IF r1 < 0 \/ r1 >= 8 \/ f1 < 0 \/ f1 >= 8 THEN NoSquare
        ELSE IF sq8[r1 * 8 + f1] # EMPTY THEN r1 * 8 + f1
        ELSE RayHit(sq8, r1, f1, dir)

\* Board.isSquareAttacked(sq, by)
IsSquareAttacked(sq8, sq, by) ==
    LET pawnDir == IF by = 1 THEN -1 ELSE 1
        pawnLeft == sq + pawnDir * 8 - 1
        pawnRight == sq + pawnDir * 8 + 1
        pawn == IF by = 1 THEN W_PAWN ELSE B_PAWN
        knight == IF by = 1 THEN W_KNIGHT ELSE B_KNIGHT
        king == IF by = 1 THEN W_KING ELSE B_KING
    IN  \/ InBoard(pawnLeft) /\ sq8[pawnLeft] = pawn
        \/ InBoard(pawnRight) /\ sq8[pawnRight] = pawn
        \/ \E offset \in KnightOffsets :
               InBoard(sq + offset) /\ sq8[sq + offset] = knight
        \/ \E offset \in KingOffsets :
               InBoard(sq + offset) /\ sq8[sq + offset] = king
        \/ \E dir \in Directions :
               \E hit \in {RayHit(sq8, RankOf(sq), FileOf(sq), dir)} :
                   /\ hit # NoSquare
                   /\ (by = 1 /\ IsWhite(sq8[hit])) \/ (by = -1 /\ IsBlack(sq8[hit]))
                   /\ \/ GetPieceType(sq8[hit]) = 5
                      \/ GetPieceType(sq8[hit]) = 3 /\ dir \in DiagDirections
                      \/ GetPieceType(sq8[hit]) = 4 /\ dir \in OrthDirections

\* MoveGenerator: the piece of side on from has a capture onto to
\* (generatePawnMoves captures, generateKnightMoves, generateSlidingMoves,
\* generateKingMoves; en passant aside).
GeneratesCapture(sq8, side, from, to) ==
    /\ IsOwnPiece(side, sq8[from])
    /\ IsEnemyPiece(side, sq8[to])
    /\ LET type == GetPieceType(sq8[from])
           dr == Abs(RankOf(from) - RankOf(to))
           df == Abs(FileOf(from) - FileOf(to))
           dir == IF side = 1 THEN -8 ELSE 8
       IN  CASE type = 1 -> to \in {from + dir - 1, from + dir + 1} /\ df = 1
             [] type = 2 -> (to - from) \in KnightOffsets /\ dr <= 2 /\ df <= 2
             [] type = 6 -> (to - from) \in KingOffsets /\ dr <= 1 /\ df <= 1
             [] OTHER ->
                  \E d \in (IF type = 3 THEN DiagDirections
                            ELSE IF type = 4 THEN OrthDirections
                            ELSE Directions) :
                      RayHit(sq8, RankOf(from), FileOf(from), d) = to

\* MoveGenerator.generate(board, capturesOnly = true), as (from, to) pairs
GenerateCaptures(sq8, side) ==
    {m \in (0..63) \X (0..63) : GeneratesCapture(sq8, side, m[1], m[2])}

\* Board.makeMove for a move without promotion, castling or en passant
MakeMove(sq8, m) ==
    [s \in 0..63 |-> IF s = m[1] THEN EMPTY
                     ELSE IF s = m[2] THEN sq8[m[1]] ELSE sq8[s]]

\* SEE.getPieceValue
GetPieceValue(type) ==
    IF type >= 1 /\ type <= 6
    THEN <<100, 320, 330, 500, 900, 20000>>[type] ELSE 0

\* SEE.evaluate(board, move): side is board.turn, so tempBoard.turn is -side
\* after makeMove and isSquareAttacked is asked about -tempBoard.turn = side
SEEEvaluate(sq8, side, m) ==
    IF sq8[m[2]] = EMPTY THEN 0
    ELSE GetPieceValue(GetPieceType(sq8[m[2]]))
           - (IF IsSquareAttacked(MakeMove(sq8, m), m[2], side)
              THEN GetPieceValue(GetPieceType(sq8[m[1]])) ELSE 0)

\* SEE.isCaptureSafe
IsCaptureSafe(gain) == gain >= SeeThreshold

\* parseFEN: the board with the pieces of placement, a set of (square, piece)
Placed(placement) ==
    [s \in 0..63 |->
        IF \E pl \in placement : pl[1] = s
        THEN (CHOOSE pl \in placement : pl[1] = s)[2] ELSE EMPTY]

\* The positions set up: both kings (e1, e8), a black pawn on d4, one white
\* piece that can take it (Qd2, Nc2, Pe3 or Ra4), any of the black
\* defenders of d4 (Pc5, Nc6, Rd8) and any of the white pieces behind the
\* capture (Bg1, Pc3).
SeeAttackers == {<<51, W_QUEEN>>, <<50, W_KNIGHT>>, <<44, W_PAWN>>, <<32, W_ROOK>>}
SeeDefenders == {<<26, B_PAWN>>, <<18, B_KNIGHT>>, <<3, B_ROOK>>}
SeeSupporters == {<<62, W_BISHOP>>, <<42, W_PAWN>>}
SeeBoards ==
    {Placed({<<60, W_KING>>, <<4, B_KING>>, <<35, B_PAWN>>, a} \cup D \cup S) :
        a \in SeeAttackers, D \in SUBSET SeeDefenders, S \in SUBSET SeeSupporters}

NoSeeMove == <<NoSquare, NoSquare>>

\* ------------------------------------------------- MoveGenerator.generate
\* A move object { from, to, promotion, castle }: promotion 0 and castle ""
\* where the source leaves the field undefined.
NewMove(from, to) == [from |-> from, to |-> to, promotion |-> 0, castle |-> ""]

\* The promos array of generatePawnMoves and the four moves pushed from it
PromotionMoves(side, from, to) ==
    LET promos == IF side = 1 THEN <<W_QUEEN, W_ROOK, W_BISHOP, W_KNIGHT>>
                  ELSE <<B_QUEEN, B_ROOK, B_BISHOP, B_KNIGHT>>
    IN  [i \in 1..4 |-> [from |-> from, to |-> to,
                         promotion |-> promos[i], castle |-> ""]]

\* MoveGenerator.generatePawnMoves(board, sq, moves, false); ep is
\* board.enPassant
GeneratePawnMoves(sq8, side, ep, sq) ==
    LET dir == IF side = 1 THEN -8 ELSE 8
        startRank == IF side = 1 THEN 6 ELSE 1
        promoRank == IF side = 1 THEN 1 ELSE 6
        forward == sq + dir
        doublePush == sq + dir * 2
        Forward ==
            IF InBoard(forward) /\ sq8[forward] = EMPTY
            THEN IF RankOf(forward) = promoRank
                 THEN PromotionMoves(side, sq, forward)
                 ELSE <<NewMove(sq, forward)>>
                        \o (IF /\ RankOf(sq) = startRank
                               /\ InBoard(doublePush)
                               /\ sq8[doublePush] = EMPTY
                            THEN <<NewMove(sq, doublePush)>> ELSE << >>)
            ELSE << >>
        Capture(to) ==
            IF /\ InBoard(to)
               /\ Abs(FileOf(sq) - FileOf(to)) = 1
               /\ (IsEnemyPiece(side, sq8[to]) \/ to = ep)
            THEN IF RankOf(to) = promoRank
                 THEN PromotionMoves(side, sq, to)
                 ELSE <<NewMove(sq, to)>>
            ELSE << >>
    IN  Forward \o Capture(sq + dir - 1) \o Capture(sq + dir + 1)

\* The for loop over offsets of generateKnightMoves (reach 2) and
\* generateKingMoves (reach 1), from the i-th offset on
RECURSIVE GenerateOffsetMoves(_, _, _, _, _, _)
GenerateOffsetMoves(sq8, side, sq, offsets, reach, i) ==
    IF i > Len(offsets) THEN << >>
    ELSE LET to == sq + offsets[i]
         IN  (IF /\ InBoard(to)
                 /\ Abs(RankOf(sq) - RankOf(to)) <= reach
                 /\ Abs(FileOf(sq) - FileOf(to)) <= reach
                 /\ (sq8[to] = EMPTY \/ IsEnemyPiece(side, sq8[to]))
              THEN <<NewMove(sq, to)>> ELSE << >>)
               \o GenerateOffsetMoves(sq8, side, sq, offsets, reach, i + 1)

\* MoveGenerator.generateKnightMoves
GenerateKnightMoves(sq8, side, sq) ==
    GenerateOffsetMoves(sq8, side, sq, <<-17, -15, -10, -6, 6, 10, 15, 17>>, 2, 1)

\* The while (true) walk of generateSlidingMoves from (r, f) in direction dir
RECURSIVE RayMoves(_, _, _, _, _, _)
RayMoves(sq8, side, sq, r, f, dir) ==
    LET r1 == r + dir[1]
        f1 == f + dir[2]
        to == r1 * 8 + f1
    IN  IF r1 < 0 \/ r1 >= 8 \/ f1 < 0 \/ f1 >= 8 THEN << >>
        ELSE IF sq8[to] = EMPTY
             THEN <<NewMove(sq, to)>> \o RayMoves(sq8, side, sq, r1, f1, dir)
        ELSE IF IsEnemyPiece(side, sq8[to]) THEN <<NewMove(sq, to)>>
        ELSE << >>

\* MoveGenerator.generateSlidingMoves, from the i-th direction on
RECURSIVE GenerateSlidingMoves(_, _, _, _, _)
GenerateSlidingMoves(sq8, side, sq, directions, i) ==
    IF i > Len(directions) THEN << >>
    ELSE RayMoves(sq8, side, sq, RankOf(sq), FileOf(sq), directions[i])
           \o GenerateSlidingMoves(sq8, side, sq, directions, i + 1)

\* generateBishopMoves, generateRookMoves, generateQueenMoves
GenerateBishopMoves(sq8, side, sq) ==
    GenerateSlidingMoves(sq8, side, sq,
                         <<<<1, 1>>, <<1, -1>>, <<-1, 1>>, <<-1, -1>>>>, 1)
GenerateRookMoves(sq8, side, sq) ==
    GenerateSlidingMoves(sq8, side, sq,
                         <<<<1, 0>>, <<-1, 0>>, <<0, 1>>, <<0, -1>>>>, 1)
GenerateQueenMoves(sq8, side, sq) ==
    GenerateSlidingMoves(sq8, side, sq,
                         <<<<1, 0>>, <<-1, 0>>, <<0, 1>>, <<0, -1>>,
                           <<1, 1>>, <<1, -1>>, <<-1, 1>>, <<-1, -1>>>>, 1)

\* board.castling as parseFEN fills it
CastlingRights(field) ==
    IF field = "KQkq" THEN [wk |-> TRUE, wq |-> TRUE, bk |-> TRUE, bq |-> TRUE]
    ELSE [wk |-> FALSE, wq |-> FALSE, bk |-> FALSE, bq |-> FALSE]

CastleMove(from, to, castle) ==
    [from |-> from, to |-> to, promotion |-> 0, castle |-> castle]

\* MoveGenerator.generateKingMoves: the offsets, then the castling moves
GenerateKingMoves(sq8, side, rights, sq) ==
    GenerateOffsetMoves(sq8, side, sq, <<-9, -8, -7, -1, 1, 7, 8, 9>>, 1, 1)
      \o (IF side = 1 /\ RankOf(sq) = 7 /\ FileOf(sq) = 4
          THEN (IF rights.wk /\ sq8[61] = EMPTY /\ sq8[62] = EMPTY
                THEN <<CastleMove(sq, 62, "wk")>> ELSE << >>)
                 \o (IF /\ rights.wq
                        /\ sq8[59] = EMPTY /\ sq8[58] = EMPTY /\ sq8[57] = EMPTY
                     THEN <<CastleMove(sq, 58, "wq")>> ELSE << >>)
          ELSE IF side = -1 /\ RankOf(sq) = 0 /\ FileOf(sq) = 4
          THEN (IF rights.bk /\ sq8[5] = EMPTY /\ sq8[6] = EMPTY
                THEN <<CastleMove(sq, 6, "bk")>> ELSE << >>)
                 \o (IF /\ rights.bq
                        /\ sq8[3] = EMPTY /\ sq8[2] = EMPTY /\ sq8[1] = EMPTY
                     THEN <<CastleMove(sq, 2, "bq")>> ELSE << >>)
          ELSE << >>)

\* MoveGenerator.generate(board): the for loop over the squares from sq on
RECURSIVE Generate(_, _, _, _, _)
Generate(sq8, side, rights, ep, sq) ==
    IF sq >= 64 THEN << >>
    ELSE (IF ~IsOwnPiece(side, sq8[sq]) THEN << >>
          ELSE CASE GetPieceType(sq8[sq]) = 1 -> GeneratePawnMoves(sq8, side, ep, sq)
                 [] GetPieceType(sq8[sq]) = 2 -> GenerateKnightMoves(sq8, side, sq)
                 [] GetPieceType(sq8[sq]) = 3 -> GenerateBishopMoves(sq8, side, sq)
                 [] GetPieceType(sq8[sq]) = 4 -> GenerateRookMoves(sq8, side, sq)
                 [] GetPieceType(sq8[sq]) = 5 -> GenerateQueenMoves(sq8, side, sq)
                 [] OTHER -> GenerateKingMoves(sq8, side, rights, sq))
           \o Generate(sq8, side, rights, ep, sq + 1)

\* ------------------------------------------- PolicyNetwork.getMovePolicy
\* Scores in hundredths; priors in units of 1 / PriorUnit.
ScoreUnit == 100
PriorUnit == 100000
ExpUnit == 10000

\* getMovePolicy: the score of one move before Math.exp, in hundredths.
\* score *= 0.01 acts on the initial 1.0, so it leaves 0.01.
MoveScore(sq8, side, fullmove, m) ==
    LET pieceType == GetPieceType(sq8[m.from])
        targetType == GetPieceType(sq8[m.to])
        see == SEEEvaluate(sq8, side, <<m.from, m.to>>)
        toRank == RankOf(m.to)
        toFile == FileOf(m.to)
    IN  (IF targetType > 0
         THEN (IF see < SeeThreshold THEN 1 ELSE ScoreUnit + see)
         ELSE ScoreUnit)
        + (IF targetType > 0
           THEN (3 + <<1, 3, 3, 5, 9, 0>>[targetType]) * ScoreUnit ELSE 0)
        + (IF m.promotion # 0 THEN 10 * ScoreUnit ELSE 0)
        + (IF toRank >= 2 /\ toRank <= 5 /\ toFile >= 2 /\ toFile <= 5
           THEN 150 ELSE 0)
        + (IF /\ fullmove < 12
              /\ pieceType \in {2, 3}
              /\ \/ side = 1 /\ RankOf(m.from) = 7
                 \/ side = -1 /\ RankOf(m.from) = 0
           THEN 250 ELSE 0)
        + (IF m.castle # "" THEN 4 * ScoreUnit ELSE 0)

\* Math.exp(-d / 100) in units of 1 / ExpUnit, for d >= 0: the product of
\* exp(-k), exp(-j / 10) and exp(-g / 100) for the digits k, j, g of d, the
\* last by its series 1 - x + x^2 / 2.
ExpNeg(d) ==
    LET k == d \div 100
        j == (d % 100) \div 10
        g == d % 10
        whole == <<10000, 3679, 1353, 498, 183, 67, 25, 9, 3, 1>>
        tenth == <<10000, 9048, 8187, 7408, 6703, 6065, 5488, 4966, 4493, 4066>>
        hundredth == ExpUnit - 100 * g + (g * g) \div 2
    IN  IF k >= 10 THEN 0
        ELSE (((whole[k + 1] * tenth[j + 1]) \div ExpUnit) * hundredth) \div ExpUnit

RECURSIVE SeqMax(_, _)
SeqMax(s, i) ==
    IF i = Len(s) THEN s[i]
    ELSE LET rest == SeqMax(s, i + 1) IN IF s[i] > rest THEN s[i] ELSE rest

RECURSIVE SeqSum(_, _)
SeqSum(s, i) == IF i > Len(s) THEN 0 ELSE s[i] + SeqSum(s, i + 1)

\* scores.push(Math.exp(score)): every Math.exp(score) over the greatest of
\* them, which leaves each quotient s / totalScore what it is
ExpScores(scores) ==
    LET top == SeqMax(scores, 1)
    IN  [i \in 1..Len(scores) |-> ExpNeg(top - scores[i])]

\* return scores.map(s => s / totalScore) without the division by totalScore
Unnormalized(exps, totalScore) ==
    [i \in 1..Len(exps) |-> (exps[i] * PriorUnit) \div ExpUnit]

\* return scores.map(s => s / totalScore)
Normalize(exps, totalScore) ==
    [i \in 1..Len(exps) |-> (exps[i] * PriorUnit) \div totalScore]

\* PolicyNetwork.getMovePolicy(board, moves)
GetMovePolicy(sq8, side, fullmove, moves) ==
    LET scores == [i \in 1..Len(moves) |-> MoveScore(sq8, side, fullmove, moves[i])]
    IN  IF Len(moves) = 0 THEN << >>
        ELSE Normalize(ExpScores(scores), SeqSum(ExpScores(scores), 1))

\* MCTSNode.expand() on a node holding the board: the children pushed, each
\* with its move and prior (<< >> when there is no move and the node turns
\* terminal instead)
ExpandChildren(sq8, side, rights, ep, fullmove) ==
    LET moves == Generate(sq8, side, rights, ep, 0)
        priors == GetMovePolicy(sq8, side, fullmove, moves)
    IN  [i \in 1..Len(moves) |-> [move |-> moves[i], prior |-> priors[i]]]


\* ------------------------------------------- lichess-lc0-bot.user-stable.js
\* CONFIG of the bot, times in milliseconds
EngineTimeout == 15000            \* CONFIG.engineTimeout
WatchdogInterval == 5000          \* CONFIG.watchdogInterval
MaxProcessingTime == 20000        \* CONFIG.maxProcessingTime
MaxRetries == 3                   \* CONFIG.maxRetries
RetryDelay == 200                 \* CONFIG.retryDelay
AnalyzeDelay == 100               \* handleGameState: setTimeout(..., 100)
RecoveryDelay == 1000             \* forceRecovery: setTimeout(..., 1000)
BookMoveCount == 6                \* analyzePosition: STATE.moveCount <= 6
NoTime == -1                      \* STATE.processingStartTime = null
NoFen == ""                       \* STATE.currentFen = ''
\* A move is known by the position it was chosen for and by who chose it
BookMove(fen) == [for |-> fen, by |-> "book"]
EngineMove(fen) == [for |-> fen, by |-> "engine"]
NoSent == [move |-> [for |-> NoFen, by |-> "none"], position |-> NoFen]

\* The positions the page reports: Fens in a game (one with an entry in
\* OpeningBook.openings, one without, and one in which the side to move has
\* no move, so that the engine's search returns null), BookFens in an
\* opening that stays in the book.
Fens == {"startpos", "middlegame", "mated"}
BookFens == {"startpos", "french"}
HasBookMove(fen) == fen \in BookFens
HasLegalMove(fen) == fen # "mated"

\* The clock of the model goes in steps of ClockStep milliseconds: a delay
\* is rounded to the nearest step.
Rounded(delay) == ((delay + ClockStep \div 2) \div ClockStep) * ClockStep

\* window.setTimeout(callback, delay): the callback joins the pending timers
SetTimeout(w, delay, kind, arg) ==
    [w EXCEPT !.timers =
        Append(@, [due |-> Rounded(delay), kind |-> kind, arg |-> arg])]

RECURSIVE WithoutKind(_, _)
WithoutKind(ts, kind) ==
    IF ts = << >> THEN << >>
    ELSE IF Head(ts).kind = kind THEN WithoutKind(Tail(ts), kind)
    ELSE <<Head(ts)>> \o WithoutKind(Tail(ts), kind)

\* RecoveryManager.clearEngineTimeout
ClearEngineTimeout(w) == [w EXCEPT !.timers = WithoutKind(@, "engineTimeout")]

\* RecoveryManager.setEngineTimeout without the setTimeout
SetNoEngineTimeout(w) == ClearEngineTimeout(w)

\* RecoveryManager.setEngineTimeout(callback)
SetEngineTimeout(w) ==
    SetTimeout(ClearEngineTimeout(w), EngineTimeout, "engineTimeout", 0)

\* STATE.processingMove = false; STATE.processingStartTime = null
ResetProcessingState(s) ==
    [s EXCEPT !.processingMove = FALSE, !.processingTime = NoTime]

\* forceRecovery without effect
RecoverySkipped(w, reason) == w

\* RecoveryManager.forceRecovery(reason): 'stop' leaves the engine to answer
\* the searches it was given
ForceRecovery(w, reason) ==
    LET cleared == ClearEngineTimeout(w)
        reset == [cleared EXCEPT
                    !.State = [ResetProcessingState(@) EXCEPT !.consecutiveErrors = 0],
                    !.lastEvent = "recovery"]
    IN  IF reset.State.currentFen # NoFen /\ reset.State.engineReady
        THEN SetTimeout(reset, RecoveryDelay, "retry", 0)
        ELSE reset

\* STATE.consecutiveErrors++
CountError(w) ==
    [w EXCEPT !.State.consecutiveErrors = @ + 1,
              !.errorPeak = w.State.consecutiveErrors + 1]

\* sendMove's test CONFIG.autoRecovery && STATE.consecutiveErrors >= 4
TooManyErrorsLate(n) == n >= 4

\* sendMove's test CONFIG.autoRecovery && STATE.consecutiveErrors >= 3
TooManyErrors(n) == n >= 3

\* LichessManager.sendMove(move, attempt); throws: webSocket.send throws
SendMove(w, move, attempt, throws) ==
    LET idle == [w EXCEPT !.State = ResetProcessingState(@)]
    IN  IF w.webSocket = "none" THEN idle
        ELSE IF w.webSocket # "open"
        THEN IF attempt <= MaxRetries
             THEN SetTimeout(w, RetryDelay * attempt, "send",
                             [move |-> move, attempt |-> attempt + 1])
             ELSE ForceRecovery(idle, "WebSocket not ready")
        ELSE IF throws
        THEN IF TooManyErrors(CountError(idle).State.consecutiveErrors)
             THEN ForceRecovery(CountError(idle), "Multiple send failures")
             ELSE CountError(idle)
        ELSE [idle EXCEPT !.lastEvent = "sent",
                          !.lastSent = [move |-> move,
                                        position |-> w.State.currentFen]]

\* EngineManager.onBestMove(output) for the answer to a search of fen:
\* 'bestmove <move>', or 'bestmove (none)' when the search found no move,
\* which validateMove rejects
OnBestMove(w, fen, throws) ==
    LET cleared == ClearEngineTimeout(w)
    IN  IF ~HasLegalMove(fen)
        THEN ForceRecovery(CountError(cleared), "Invalid move format")
        ELSE SendMove([cleared EXCEPT !.State.consecutiveErrors = 0],
                      EngineMove(fen), 1, throws)

\* EngineManager.analyzePosition(fen); engineThrows: postMessage throws,
\* sendThrows: webSocket.send throws on the book move
AnalyzePosition(w, fen, engineThrows, sendThrows) ==
    IF ~w.State.engineReady THEN w
    ELSE IF w.State.processingMove
    THEN IF /\ w.State.processingTime # NoTime
            /\ w.State.processingTime > MaxProcessingTime \div 2
         THEN ForceRecovery(w, "Duplicate analysis request with stuck state")
         ELSE w
    ELSE LET processing ==
                 [w EXCEPT !.State.processingMove = TRUE,
                           !.State.processingTime = 0,
                           !.State.moveCount =
                               IF @ <= BookMoveCount THEN @ + 1 ELSE @]
         IN  IF processing.State.moveCount <= BookMoveCount /\ HasBookMove(fen)
             THEN SendMove([processing EXCEPT !.State = ResetProcessingState(@),
                                              !.awaiting = @ \ {fen}],
                           BookMove(fen), 1, sendThrows)
             ELSE IF engineThrows
             THEN ForceRecovery(CountError(SetEngineTimeout(processing)), "Exception")
             ELSE [SetEngineTimeout(processing) EXCEPT !.searching = @ \cup {fen},
                                                       !.awaiting = @ \ {fen}]

\* RecoveryManager.checkHealth
CheckHealth(w) ==
    IF /\ w.State.processingMove
       /\ w.State.processingTime # NoTime
       /\ w.State.processingTime > MaxProcessingTime
    THEN ForceRecovery(w, "Processing timeout")
    ELSE w

\* The callback of a pending timer
TimerCallback(w, t, engineThrows, sendThrows) ==
    CASE t.kind = "analyze" -> AnalyzePosition(w, t.arg, engineThrows, sendThrows)
      [] t.kind = "retry" ->
             AnalyzePosition(w, w.State.currentFen, engineThrows, sendThrows)
      [] t.kind = "send" -> SendMove(w, t.arg.move, t.arg.attempt, sendThrows)
      [] OTHER -> ForceRecovery(w, "Engine timeout")

\* The STATE object once the script is loaded
InitialState ==
    [engineReady |-> FALSE, processingMove |-> FALSE,
     processingTime |-> NoTime, currentFen |-> NoFen,
     moveCount |-> 0, consecutiveErrors |-> 0]

Init ==
    /\ board = 1
    /\ tree = NoTree
    /\ simulations = DefaultSimulations
    /\ temperature = DefaultTemperature
    /\ pc = "idle"
    /\ iter = 0
    /\ simLimit = 0
    /\ timeLimit = 0
    /\ elapsed = 0
    /\ stopSearch = FALSE
    /\ nodes = 0
    /\ result = NoResult
    /\ request = NoRequest
    /\ searches = 0
    /\ passCount = NoTree
    /\ lastSim = NoSim
    /\ rootFor = 0
    /\ root = NoTree
    /\ nodeCount = 0
    /\ searchActive = FALSE
    /\ searchPc = "idle"
    /\ options = NoOptions
    /\ evalResult = NoEval
    /\ iterations = 0
    /\ sinceStart = 0
    /\ started = 0
    /\ stopSeen = FALSE
    /\ rootEval = NoInference
    /\ loaderResult = NoLoaderResult
    /\ loaderSearches = 0
    /\ squares = EmptyBoard
    /\ turn = 1
    /\ castling = "KQkq"
    /\ seeMove = NoSeeMove
    /\ seeGain = 0
    /\ children = << >>
    /\ State = InitialState
    /\ timers = << >>
    /\ watchdog = WatchdogInterval
    /\ searching = {}
    /\ webSocket = "none"
    /\ updates = 0
    /\ lastEvent = "none"
    /\ errorPeak = 0
    /\ heap = << >>
    /\ rootRef = 0
    /\ callActive = FALSE
    /\ callCount = 0
    /\ calls = [c \in Calls |-> NoCall]
    /\ iterated = << >>
    /\ draw = NoDraw
    /\ lastSent = NoSent
    /\ awaiting = {}
    /\ posted = << >>
    /\ goTimers = << >>
    /\ stopFlag = FALSE
    /\ slice = NoSlice
    /\ stopReceived = FALSE
    /\ postCount = 0

\* processCommand('position ...'): parseFEN / makeMove rewrite the engine's
\* Board object in place.
SetPosition(p) ==
    /\ UNCHANGED notEngineVars
    /\ pc = "idle"
    /\ searches < MaxSearches
    /\ board' = p
    /\ result' = NoResult
    /\ UNCHANGED <<tree, simulations, temperature, pc, iter, simLimit, timeLimit,
                   elapsed, stopSearch, nodes, request,
                   searches, passCount, lastSim, rootFor>>

\* processCommand('setoption name Simulations value n')
SetSimulations(n) ==
    /\ UNCHANGED notEngineVars
    /\ pc = "idle"
    /\ searches < MaxSearches
    /\ simulations' = n
    /\ result' = NoResult
    /\ UNCHANGED <<board, tree, temperature, pc, iter, simLimit, timeLimit,
                   elapsed, stopSearch, nodes, request,
                   searches, passCount, lastSim, rootFor>>

\* processCommand('setoption name Temperature value 0')
SetTemperature(x) ==
    /\ UNCHANGED notEngineVars
    /\ pc = "idle"
    /\ searches < MaxSearches
    /\ temperature' = x
    /\ result' = NoResult
    /\ UNCHANGED <<board, tree, simulations, pc, iter, simLimit, timeLimit,
                   elapsed, stopSearch, nodes, request,
                   searches, passCount, lastSim, rootFor>>

\* processCommand('go ...') up to the for loop of search(): argument
\* defaults, endgame override, root initialisation, root.expand(), the
\* early return without children, addDirichletNoise.
Go(sims, movetime) ==
    /\ UNCHANGED notEngineVars
    /\ pc = "idle"
    /\ searches < MaxSearches
    /\ LET mt == GoMoveTime(movetime)
           sm == GoSimulations(sims, simulations)
           kind == RequestKind(tree, board, rootFor)
           t0 == SearchRoot(tree, board)
       IN  \E t1 \in {Expand(t0, << >>, board)} :
           /\ searches' = searches + 1
           /\ elapsed' = 0
           /\ stopSearch' = FALSE
           /\ nodes' = 0
           /\ iter' = 0
           /\ rootFor' = IF t0[<< >>].isExpanded THEN rootFor ELSE board
           /\ passCount' = [q \in DOMAIN t1 |->
                               IF q \in DOMAIN passCount /\ t0 = tree
                               THEN passCount[q] ELSE 0]
           /\ IF t1[<< >>].nch = 0
              THEN /\ tree' = t1
                   /\ pc' = "idle"
                   /\ result' = [answered |-> TRUE, pos |-> board,
                                 move |-> NoMove, sims |-> 0, kind |-> kind]
                   /\ request' = NoRequest
                   /\ timeLimit' = 0
                   /\ simLimit' = 0
              ELSE /\ \E nz \in NoiseVectors(t1[<< >>].nch) :
                          tree' = AddDirichletNoise(t1, << >>, nz)
                   /\ pc' = "loop"
                   /\ result' = NoResult
                   /\ request' = [pos |-> board, sims |-> sims,
                                  movetime |-> movetime, kind |-> kind]
                   /\ timeLimit' = mt
                   /\ simLimit' = SearchSimulations(board, sm)
    /\ UNCHANGED <<board, simulations, temperature, lastSim>>

\* One pass of the for loop of search() that runs a simulation; cap bounds
\* the passes followed.
SimulateUpTo(cap) ==
    /\ UNCHANGED notEngineVars
    /\ pc = "loop"
    /\ LoopContinues(iter, simLimit, stopSearch, elapsed, timeLimit)
    /\ iter < cap
    /\ \E r \in {RunSimulation(tree, board)} :
           /\ tree' = r.tree
           /\ lastSim' = [leaf |-> r.leaf, value |-> r.value]
           /\ passCount' = [q \in DOMAIN r.tree |->
                               (IF q \in DOMAIN passCount THEN passCount[q] ELSE 0)
                               + (IF q \in Prefixes(r.leaf) THEN 1 ELSE 0)]
    /\ nodes' = nodes + 1
    /\ iter' = iter + 1
    /\ UNCHANGED <<board, simulations, temperature, pc, simLimit, timeLimit,
                   elapsed, stopSearch, result, request, searches, rootFor>>

Simulate == SimulateUpTo(MaxIter)

\* The loop of search() ends (count reached, or break) and processCommand
\* emits the move returned by getBestMove(MCTS_CONFIG.temperature).
Finish ==
    /\ UNCHANGED notEngineVars
    /\ pc = "loop"
    /\ ~LoopContinues(iter, simLimit, stopSearch, elapsed, timeLimit)
    /\ \E k \in BestMoveChoices(tree, << >>, temperature) :
           result' = [answered |-> TRUE, pos |-> request.pos,
                      move |-> tree[<<k>>].move, sims |-> nodes,
                      kind |-> request.kind]
    /\ pc' = "idle"
    /\ iter' = 0
    /\ simLimit' = 0
    /\ timeLimit' = 0
    /\ elapsed' = 0
    /\ request' = NoRequest
    /\ lastSim' = NoSim
    /\ UNCHANGED <<board, tree, simulations, temperature, stopSearch, nodes,
                   searches, passCount, rootFor>>

\* Date.now() advances while search() runs.
Tick ==
    /\ UNCHANGED notEngineVars
    /\ pc = "loop"
    /\ elapsed + TickMs <= MaxElapsed
    /\ elapsed' = elapsed + TickMs
    /\ UNCHANGED <<board, tree, simulations, temperature, pc, iter, simLimit,
                   timeLimit, stopSearch, nodes, result, request,
                   searches, passCount, lastSim, rootFor>>

Next ==
    \/ \E p \in Positions : SetPosition(p)
    \/ SetSimulations(1)
    \/ SetTemperature(0)
    \/ \E sims \in {NoArg, 2}, movetime \in {NoArg, 1000} : Go(sims, movetime)
    \/ Simulate
    \/ Finish
    \/ Tick

Spec == Init /\ [][Next]_vars

\* ------------------------------------------- loader: search() as a coroutine
\* search(board, options) up to its first await: the flags, the clock and
\* the call of nn.evaluate, whose body runs to its return at once.
SearchStart(tl, nd, inf) ==
    /\ searchPc = "idle"
    /\ loaderSearches < MaxSearches
    /\ searchActive' = TRUE
    /\ nodeCount' = 0
    /\ sinceStart' = 0
    /\ options' = [timeLimitMs |-> IF tl = NoArg THEN DefaultTimeLimitMs ELSE tl,
                   nodes |-> nd]
    /\ evalResult' = Evaluate(inf)
    /\ rootEval' = inf
    /\ iterations' = 0
    /\ stopSeen' = FALSE
    /\ loaderResult' = NoLoaderResult
    /\ loaderSearches' = loaderSearches + 1
    /\ searchPc' = "awaitEvaluate"
    /\ UNCHANGED <<root, started>>
    /\ UNCHANGED notLoaderVars

\* search() resumed after "await this.nn.evaluate(board)": the new root and
\* the call of expandNode on it.
SearchExpandRoot ==
    /\ searchPc = "awaitEvaluate"
    /\ \E t1 \in {ExpandNode(<< >> :> LoaderNode(0, PScale), << >>,
                              evalResult.policy)} :
           /\ root' = t1
           /\ nodeCount' = nodeCount + t1[<< >>].nch
    /\ started' = 0
    /\ searchPc' = "awaitExpand"
    /\ UNCHANGED <<searchActive, options, evalResult, iterations, sinceStart,
                   stopSeen, rootEval, loaderResult, loaderSearches>>
    /\ UNCHANGED notLoaderVars

\* search() resumed after "await this.expandNode" (addDirichletNoise comes
\* first) or after "await this.iterate": the tree the loop test finds.
ResumedTrees ==
    IF searchPc = "awaitExpand"
    THEN {LoaderAddDirichletNoise(root, << >>, nz) : nz \in LoaderNoise}
    ELSE {root}

\* A pass of the while loop that calls iterate(), up to "await this.iterate".
SearchIterate ==
    /\ searchPc \in {"awaitExpand", "awaitIterate"}
    /\ iterations < MaxIter
    /\ LoaderLoopContinues(searchActive, iterations + 1, sinceStart, options,
                           nodeCount)
    /\ \E t0 \in ResumedTrees, inf \in Inferences :
           \E t1 \in {Iterate(t0, inf)} :
               /\ root' = t1
               /\ nodeCount' = nodeCount + Cardinality(DOMAIN t1)
                                          - Cardinality(DOMAIN t0)
    /\ iterations' = iterations + 1
    /\ started' = started + 1
    /\ searchPc' = "awaitIterate"
    /\ UNCHANGED <<searchActive, options, evalResult, sinceStart, stopSeen,
                   rootEval, loaderResult, loaderSearches>>
    /\ UNCHANGED notLoaderVars

\* The while loop ends (searchActive false, or a break after iterations++)
\* and search() returns the most visited child of the root.
SearchReturn ==
    /\ searchPc \in {"awaitExpand", "awaitIterate"}
    /\ ~LoaderLoopContinues(searchActive, iterations + 1, sinceStart, options,
                            nodeCount)
    /\ \E t0 \in ResumedTrees :
           /\ root' = t0
           /\ loaderResult' =
                  [answered |-> TRUE, move |-> t0[<<GetBestChild(t0)>>].move,
                   nodes |-> IF searchActive THEN iterations + 1 ELSE iterations,
                   stopped |-> ~searchActive]
    /\ searchPc' = "idle"
    /\ options' = NoOptions
    /\ evalResult' = NoEval
    /\ iterations' = 0
    /\ sinceStart' = 0
    /\ UNCHANGED <<nodeCount, searchActive, started, stopSeen, rootEval,
                   loaderSearches>>
    /\ UNCHANGED notLoaderVars

\* MCTSEngine.stop(), called while search() is suspended or not running.
LoaderStop ==
    /\ searchActive
    /\ searchActive' = FALSE
    /\ stopSeen' = (searchPc # "idle")
    /\ UNCHANGED <<root, nodeCount, searchPc, options, evalResult, iterations,
                   sinceStart, started, rootEval, loaderResult, loaderSearches>>
    /\ UNCHANGED notLoaderVars

\* performance.now() advances while search() is suspended.
LoaderTick ==
    /\ searchPc # "idle"
    /\ sinceStart + TickMs <= MaxElapsed
    /\ sinceStart' = sinceStart + TickMs
    /\ UNCHANGED <<root, nodeCount, searchActive, searchPc, options, evalResult,
                   iterations, started, stopSeen, rootEval, loaderResult,
                   loaderSearches>>
    /\ UNCHANGED notLoaderVars

NextLoader ==
    \/ \E tl \in {NoArg, 2000}, nd \in {NoArg, 3}, inf \in Inferences :
           SearchStart(tl, nd, inf)
    \/ SearchExpandRoot
    \/ SearchIterate
    \/ SearchReturn
    \/ LoaderStop
    \/ LoaderTick

SpecLoader == Init /\ [][NextLoader]_vars

\* ------------------------------------- loader: overlapping calls of search()
CallWorld ==
    [heap |-> heap, rootRef |-> rootRef, callActive |-> callActive,
     callCount |-> callCount, calls |-> calls, iterated |-> iterated]

CallCommit(w) ==
    /\ heap' = w.heap
    /\ rootRef' = w.rootRef
    /\ callActive' = w.callActive
    /\ callCount' = w.callCount
    /\ calls' = w.calls
    /\ iterated' = w.iterated
    /\ UNCHANGED notCallVars

\* mctsEngine.search(board, { nodes }) is called
CallSearch(c, inf) ==
    /\ calls[c].pc = "idle"
    /\ \A b \in 1..(c - 1) : calls[b].pc # "idle"
    /\ CallCommit(StartSearch(CallWorld, c, CallNodes, inf))

\* A suspended call of search() is resumed.
Resume(c) ==
    /\ calls[c].pc \notin {"idle", "returned"}
    /\ \E timeUp \in (IF calls[c].pc \in {"awaitExpand", "awaitIterate"}
                     THEN BOOLEAN ELSE {FALSE}),
          inf \in (IF calls[c].pc = "iterateAwaitEvaluate"
                  THEN Inferences ELSE {NoInference}),
          nz \in (IF calls[c].pc = "awaitExpand"
                 THEN LoaderNoise ELSE {[i \in 1..GeneratedMoves |-> 0]}) :
           CallCommit(ResumeCall(CallWorld, c, timeUp, inf, nz))

\* MCTSEngine.stop()
CallStop ==
    /\ callActive
    /\ \E c \in Calls : calls[c].pc \notin {"idle", "returned"}
    /\ CallCommit([CallWorld EXCEPT !.callActive = FALSE])

NextOverlap ==
    \/ \E c \in Calls, inf \in CallInferences : CallSearch(c, inf)
    \/ \E c \in Calls : Resume(c)
    \/ CallStop

SpecOverlap == Init /\ [][NextOverlap]_vars

\* ------------------------------------- getBestMove with temperature > 0
\* root.getBestMove(temperature) on children with the given visitCounts
GetBestMove(visits, temp, quarters) ==
    /\ draw' = [visits |-> visits, temperature |-> temp, random |-> quarters,
                child |-> SampleChild(visits, temp, quarters)]
    /\ UNCHANGED notDrawVars

NextDraw ==
    \E visits \in VisitVectors, temp \in Temperatures, quarters \in 0..3 :
        GetBestMove(visits, temp, quarters)

SpecDraw == Init /\ [][NextDraw]_vars

\* ------------------------------------- unnamed/part_000: 'go' and 'stop'
\* The page calls engine.postMessage(cmd): setTimeout(processCommand, 0).
\* The page shares the one thread with the engine, so it cannot call while
\* search() runs.
PostMessage(cmd) ==
    /\ ~slice.running
    /\ postCount < MaxPosted
    /\ posted' = Append(posted, cmd)
    /\ postCount' = postCount + 1
    /\ UNCHANGED <<goTimers, stopFlag, slice, stopReceived>>
    /\ UNCHANGED notPostVars

\* processCommand(cmd) runs for the oldest posted command: 'go' goes to
\* handleGo, which sets the timeout of the search; 'stop' sets stopSearch.
ProcessCommand ==
    /\ ~slice.running
    /\ posted # << >>
    /\ posted' = Tail(posted)
    /\ IF Head(posted) = "stop"
       THEN /\ stopFlag' = TRUE
            /\ stopReceived' = (stopReceived \/ goTimers # << >>)
            /\ UNCHANGED goTimers
       ELSE /\ goTimers' = Append(goTimers, GoNodes(Head(posted)))
            /\ UNCHANGED <<stopFlag, stopReceived>>
    /\ UNCHANGED <<slice, postCount>>
    /\ UNCHANGED notPostVars

\* The timeout of handleGo fires: search() starts, up to its for loop.
SearchBegin ==
    /\ ~slice.running
    /\ goTimers # << >>
    /\ stopFlag' = FALSE
    /\ slice' = [running |-> TRUE, i |-> 0, simulations |-> Head(goTimers)]
    /\ UNCHANGED <<posted, goTimers, stopReceived, postCount>>
    /\ UNCHANGED notPostVars

\* One pass of the for loop of search()
SearchPass ==
    /\ slice.running
    /\ slice.i < MaxPasses
    /\ PassContinues(slice, stopFlag, FALSE)
    /\ slice' = [slice EXCEPT !.i = @ + 1]
    /\ UNCHANGED <<posted, goTimers, stopFlag, stopReceived, postCount>>
    /\ UNCHANGED notPostVars

\* The loop ends (count reached, stopSearch, or the deadline passed) and
\* the callback of handleGo outputs the bestmove line.
SearchEnd(timeUp) ==
    /\ slice.running
    /\ ~PassContinues(slice, stopFlag, timeUp) \/ slice.i >= MaxPasses
    /\ slice' = NoSlice
    /\ goTimers' = Tail(goTimers)
    /\ stopReceived' = FALSE
    /\ UNCHANGED <<posted, stopFlag, postCount>>
    /\ UNCHANGED notPostVars

NextPost ==
    \/ \E cmd \in {"go", "go nodes", "stop"} : PostMessage(cmd)
    \/ ProcessCommand
    \/ SearchBegin
    \/ SearchPass
    \/ \E timeUp \in BOOLEAN : SearchEnd(timeUp)

SpecPost == Init /\ [][NextPost]_vars

\* ------------------------------------------------------ SEE on the Board
\* processCommand('position fen ...'): parseFEN fills squares and turn.
ParseFEN(b, side, field) ==
    /\ squares' = b
    /\ turn' = side
    /\ castling' = field
    /\ seeMove' = NoSeeMove
    /\ seeGain' = 0
    /\ children' = << >>
    /\ UNCHANGED notSeeVars

\* getMovePolicy's call SEE.evaluate(board, move) for a generated capture.
SeeEvaluate(m) ==
    /\ m \in GenerateCaptures(squares, turn)
    /\ seeMove' = m
    /\ seeGain' = SEEEvaluate(squares, turn, m)
    /\ UNCHANGED <<squares, turn, castling, children>>
    /\ UNCHANGED notSeeVars

\* new MCTSNode(board.clone()).expand() on the position set: fullmove is
\* board.fullmove, which parseFEN leaves as the moves played so far made it.
ExpandBoard(fullmove) ==
    /\ squares # EmptyBoard
    /\ children = << >>
    /\ children' = ExpandChildren(squares, turn, CastlingRights(castling),
                                  NoSquare, fullmove)
    /\ UNCHANGED <<squares, turn, castling, seeMove, seeGain>>
    /\ UNCHANGED notSeeVars

NextSEE ==
    \/ \E b \in SeeBoards, side \in {1, -1}, field \in {"-", "KQkq"} :
           ParseFEN(b, side, field)
    \/ \E m \in (0..63) \X (0..63) : SeeEvaluate(m)
    \/ \E fullmove \in {1, 12} : ExpandBoard(fullmove)

SpecSEE == Init /\ [][NextSEE]_vars

\* ------------------------------------------- the two-move scenario, 200 sims
\* 'position' with the two-move position, then 'go simulations 200' on it.
ScenarioPosition == SetPosition(ScenarioRoot)

ScenarioGo == board = ScenarioRoot /\ Go(ScenarioSims, NoArg)

ScenarioSimulate == SimulateUpTo(ScenarioSims)

NextScenario ==
    \/ ScenarioPosition
    \/ ScenarioGo
    \/ ScenarioSimulate
    \/ Finish

SpecScenario == Init /\ [][NextScenario]_vars

\* ------------------------------------------------------------ the bot
\* What a handler of the bot reads and writes; errorPeak starts afresh with
\* each handler.
World ==
    [State |-> State, timers |-> timers, searching |-> searching,
     webSocket |-> webSocket, lastEvent |-> lastEvent,
     errorPeak |-> 0, lastSent |-> lastSent, awaiting |-> awaiting]

Commit(w) ==
    /\ State' = w.State
    /\ timers' = w.timers
    /\ searching' = w.searching
    /\ lastEvent' = w.lastEvent
    /\ errorPeak' = w.errorPeak
    /\ lastSent' = w.lastSent
    /\ awaiting' = w.awaiting

\* EngineManager.onReadyOk: the engine answered 'isready'
OnReadyOk ==
    /\ ~State.engineReady
    /\ State' = [State EXCEPT !.engineReady = TRUE]
    /\ UNCHANGED <<timers, watchdog, searching, webSocket, updates,
                   lastEvent, errorPeak, lastSent, awaiting>>
    /\ UNCHANGED notBotVars

\* LichessManager.install: the page constructs a WebSocket, which becomes
\* STATE.webSocket, and its readyState becomes OPEN
WebSocketOpen ==
    /\ webSocket \in {"none", "closed"}
    /\ webSocket' = "open"
    /\ UNCHANGED <<State, timers, watchdog, searching, updates,
                   lastEvent, errorPeak, lastSent, awaiting>>
    /\ UNCHANGED notBotVars

\* The socket's readyState becomes CLOSED
WebSocketClose ==
    /\ webSocket = "open"
    /\ webSocket' = "closed"
    /\ UNCHANGED <<State, timers, watchdog, searching, updates,
                   lastEvent, errorPeak, lastSent, awaiting>>
    /\ UNCHANGED notBotVars

\* LichessManager.handleGameState(message) for a position other than
\* STATE.currentFen, the cap-th at most
GameState(fen, cap) ==
    /\ webSocket = "open"
    /\ updates < cap
    /\ fen # State.currentFen
    /\ State' = [State EXCEPT !.currentFen = fen]
    /\ timers' = Append(timers, [due |-> Rounded(AnalyzeDelay),
                                 kind |-> "analyze", arg |-> fen])
    /\ updates' = updates + 1
    /\ awaiting' = IF State.engineReady THEN awaiting \cup {fen} ELSE awaiting
    /\ UNCHANGED <<watchdog, searching, webSocket, lastEvent, errorPeak,
                   lastSent>>
    /\ UNCHANGED notBotVars

\* The timer that is due runs: the first one set among those due
FireTimer(engineThrows, sendThrows) ==
    /\ \E i \in 1..Len(timers) :
          /\ timers[i].due = 0
          /\ \A j \in 1..(i - 1) : timers[j].due # 0
          /\ Commit(TimerCallback(
                 [World EXCEPT !.timers = SubSeq(timers, 1, i - 1)
                                            \o SubSeq(timers, i + 1, Len(timers))],
                 timers[i], engineThrows, sendThrows))
    /\ UNCHANGED <<watchdog, webSocket, updates>>
    /\ UNCHANGED notBotVars

\* The setInterval of startWatchdog runs checkHealth
WatchdogTick ==
    /\ watchdog = 0
    /\ Commit(CheckHealth(World))
    /\ watchdog' = WatchdogInterval
    /\ UNCHANGED <<webSocket, updates>>
    /\ UNCHANGED notBotVars

\* The engine answers a search of fen: handleEngineOutput -> onBestMove
EngineAnswer(fen, sendThrows) ==
    /\ fen \in searching
    /\ Commit(OnBestMove([World EXCEPT !.searching = @ \ {fen}], fen, sendThrows))
    /\ UNCHANGED <<watchdog, webSocket, updates>>
    /\ UNCHANGED notBotVars

SetMin(S) == CHOOSE x \in S : \A y \in S : x <= y

\* Time passes until the next timer is due, ClockStep at most
Advance ==
    /\ watchdog > 0
    /\ \A i \in 1..Len(timers) : timers[i].due > 0
    /\ \E dt \in {SetMin({ClockStep, watchdog}
                         \cup {timers[i].due : i \in 1..Len(timers)})} :
          /\ watchdog' = watchdog - dt
          /\ timers' = [i \in 1..Len(timers) |->
                           [timers[i] EXCEPT !.due = @ - dt]]
          /\ State' = [State EXCEPT !.processingTime =
                          IF @ = NoTime THEN NoTime
                          ELSE IF @ + dt > MaxClock THEN MaxClock ELSE @ + dt]
    /\ UNCHANGED <<searching, webSocket, updates, lastEvent, errorPeak,
                   lastSent, awaiting>>
    /\ UNCHANGED notBotVars

HandleGameState(fen) == GameState(fen, MaxUpdates)

NextBot ==
    \/ OnReadyOk
    \/ WebSocketOpen
    \/ WebSocketClose
    \/ \E fen \in Fens : HandleGameState(fen)
    \/ \E engineThrows, sendThrows \in BOOLEAN : FireTimer(engineThrows, sendThrows)
    \/ WatchdogTick
    \/ \E fen \in Fens, sendThrows \in BOOLEAN : EngineAnswer(fen, sendThrows)
    \/ Advance

SpecBot == Init /\ [][NextBot]_vars

\* The browser runs every timer that is due and its clock goes on.
SpecBotFair ==
    /\ SpecBot
    /\ WF_vars(Advance)
    /\ WF_vars(WatchdogTick)
    /\ WF_vars(\E engineThrows, sendThrows \in BOOLEAN :
                   FireTimer(engineThrows, sendThrows))

\* An opening in which every position reported has a book move.
OpeningGameState(fen) == GameState(fen, MaxBookUpdates)

NextBotOpening ==
    \/ OnReadyOk
    \/ WebSocketOpen
    \/ WebSocketClose
    \/ \E fen \in BookFens : OpeningGameState(fen)
    \/ \E engineThrows, sendThrows \in BOOLEAN : FireTimer(engineThrows, sendThrows)
    \/ WatchdogTick
    \/ Advance

SpecBotOpening == Init /\ [][NextBotOpening]_vars

\* The bot where nothing fails: the socket stays open once it is, no call
\* throws, and the engine answers every search it was given.
NextBotHealthy ==
    \/ OnReadyOk
    \/ WebSocketOpen
    \/ \E fen \in Fens : HandleGameState(fen)
    \/ FireTimer(FALSE, FALSE)
    \/ WatchdogTick
    \/ \E fen \in Fens : EngineAnswer(fen, FALSE)
    \/ Advance

SpecBotHealthy ==
    /\ Init /\ [][NextBotHealthy]_vars
    /\ WF_vars(Advance)
    /\ WF_vars(WatchdogTick)
    /\ WF_vars(FireTimer(FALSE, FALSE))
    /\ WF_vars(\E fen \in Fens : EngineAnswer(fen, FALSE))

\* A game in which nothing fails and the page reports a second position.
GameUpdate(fen) == GameState(fen, MaxGameUpdates)

NextBotGame ==
    \/ OnReadyOk
    \/ WebSocketOpen
    \/ \E fen \in Fens : GameUpdate(fen)
    \/ FireTimer(FALSE, FALSE)
    \/ WatchdogTick
    \/ \E fen \in Fens : EngineAnswer(fen, FALSE)
    \/ Advance

SpecBotGame ==
    /\ Init /\ [][NextBotGame]_vars
    /\ WF_vars(Advance)
    /\ WF_vars(WatchdogTick)
    /\ WF_vars(FireTimer(FALSE, FALSE))
    /\ WF_vars(\E fen \in Fens : EngineAnswer(fen, FALSE))

\* ===================================================================== claims
\* A step of Spec that runs one simulation.
SimulationStep == nodes' = nodes + 1

Sign(k) == IF k % 2 = 0 THEN 1 ELSE -1

C2_SignAlternation ==
    [][SimulationStep =>
         LET leaf == lastSim'.leaf
             v == lastSim'.value
         IN  \A q \in Prefixes(leaf) :
                 tree'[q].totalValue =
                     (IF q \in DOMAIN tree THEN tree[q].totalValue ELSE 0)
                       + v * Sign(Len(leaf) - Len(q))]_vars

\* C2 witness: a simulation ended two edges below the root with a nonzero value.
C2_Witness ==
    /\ nodes > 0
    /\ Len(lastSim.leaf) = 2
    /\ lastSim.value # 0
    /\ tree[lastSim.leaf].visitCount = 1

\* C3: when a search begins for a position that matches child k of the
\* previous search's root, that child becomes the root: the root then has
\* the child's visitCount and its move list is the requested position's (the
\* former siblings are gone).
C3_ChildPromoted ==
    [][\A k \in 1..(IF HasRoot(tree) THEN tree[<< >>].nch ELSE 0) :
          (/\ searches' = searches + 1
           /\ RequestKind(tree, board, rootFor) = "child"
           /\ tree[<<k>>].board = board)
          => /\ tree'[<< >>].visitCount = tree[<<k>>].visitCount
             /\ rootFor' = board]_vars

\* C4: a search for a position that matches neither the previous root nor
\* one of its children runs on a fresh root: the root's move list is the
\* requested position's, its statistics come from this search alone, and
\* the move returned is a move of the requested position.
C4_FreshRootOnMismatch ==
    /\ (pc = "loop" /\ request.kind = "other")
          => (rootFor = request.pos /\ tree[<< >>].visitCount = nodes)
    /\ (result.answered /\ result.kind = "other" /\ result.move # NoMove)
          => result.move[1] = result.pos

\* C5: a search on a position without legal moves never reaches the
\* simulation loop and answers with the explicit no-move result.
C5_NoMoveOnEmptyRoot ==
    /\ pc = "loop" => LegalMoves(request.pos) # << >>
    /\ (result.answered /\ LegalMoves(result.pos) = << >>)
          => (result.move = NoMove /\ result.sims = 0)

\* C6: the simulations run never exceed the simulation count the caller
\* passed to search(), and no simulation starts at or after the deadline.
C6_CallerBudget ==
    [][/\ pc' = "loop" => nodes' <= GoSimulations(request'.sims, simulations')
       /\ SimulationStep => elapsed < GoMoveTime(request.movetime)]_vars

\* C6 amended: the simulations run never exceed the effective cap (the
\* caller's count, replaced by endgameSimulations when the position has
\* fewer than endgamePieceThreshold pieces), and no simulation starts at or
\* after the deadline.
C6_EffectiveBudget ==
    [][/\ pc' = "loop" =>
            nodes' <= (IF PieceCount(request'.pos) < EndgamePieceThreshold
                       THEN EndgameSimulations
                       ELSE GoSimulations(request'.sims, simulations'))
       /\ SimulationStep => elapsed < GoMoveTime(request.movetime)]_vars

\* C6 witness: an endgame search has run more simulations than the caller
\* asked for and is then stopped by the deadline, short of the effective cap.
C6_Witness ==
    /\ pc = "loop"
    /\ IsEndgame(request.pos)
    /\ request.sims # NoArg
    /\ nodes > request.sims
    /\ elapsed >= timeLimit
    /\ nodes < simLimit

\* A 'go' line with neither movetime nor simulations.
Unbounded(rq) == rq.sims = NoArg /\ rq.movetime = NoArg

\* C8: a request with neither a deadline nor a simulation cap never reaches
\* the simulation loop.
C8_UnboundedRejected == ~(pc = "loop" /\ Unbounded(request))

\* C8 amended: a request with neither bound is not rejected but searched
\* under the defaults: no simulation starts 2000 ms or later after the
\* start, and at most MCTS_CONFIG.simulations simulations run
\* (endgameSimulations in an endgame position).
C8_DefaultsApplied ==
    [][(pc' = "loop" /\ Unbounded(request')) =>
          /\ timeLimit' = DefaultMoveTime
          /\ nodes' <= (IF IsEndgame(request'.pos) THEN EndgameSimulations
                        ELSE simulations')
          /\ SimulationStep => elapsed < DefaultMoveTime]_vars

\* C8 witness: a request with neither bound has run as many simulations as
\* the configured default allows.
C8_Witness ==
    /\ pc = "loop"
    /\ Unbounded(request)
    /\ nodes >= 1
    /\ nodes = simulations

\* C7: a stop signal never leaves a simulation half applied.  Whenever the
\* tree can be observed, every iterate() call started on the root has been
\* backed up to it (the root's visitCount is their number) and no virtual
\* loss is left on any node; and once stop() has cleared searchActive, the
\* suspended search starts no further simulation.
C7_StopNeverAbortsSimulation ==
    /\ [](HasRoot(root) =>
            /\ root[<< >>].visitCount = started
            /\ \A q \in DOMAIN root : root[q].virtualLoss = 0)
    /\ [][(~searchActive /\ searchPc \in {"awaitExpand", "awaitIterate"}) =>
            /\ started' = started
            /\ \A q \in DOMAIN root : root'[q].visitCount = root[q].visitCount
            /\ searchPc' \in {searchPc, "idle"}]_vars

\* C7 witness: stop() arrived while search() was suspended in "await
\* this.iterate" after two simulations, with neither the time limit nor a
\* node limit reached.
C7_Witness ==
    /\ searchPc = "awaitIterate"
    /\ ~searchActive
    /\ stopSeen
    /\ started = 2
    /\ options.nodes = NoArg
    /\ sinceStart < options.timeLimitMs

\* The inference failed as a value estimate, or as a policy.
ValueFailed(inf) == inf.status # 0 \/ inf.value = NaN
PolicyFailed(inf) == inf.status # 0 \/ inf.logits = "nan"

\* C9: a failed evaluation is recovered where it happens: the search
\* receives the value 0 when the value estimate failed (threw, or was not
\* finite), the children get one and the same prior when the policy failed,
\* and the search goes on.
C9_FailureRecovered ==
    /\ (searchPc = "awaitEvaluate" /\ ValueFailed(rootEval))
          => evalResult.value = 0
    /\ (searchPc = "awaitExpand" /\ PolicyFailed(rootEval))
          => /\ root[<< >>].nch > 0
             /\ \A i, j \in 1..root[<< >>].nch :
                    root[<<i>>].prior = root[<<j>>].prior

\* C10: a node found without legal moves during a simulation is terminal,
\* without children, and its value reflects the outcome the rules give the
\* position: negative for a loss of the side to move, 0 for a draw.
C10_TerminalValueReflectsOutcome ==
    \A q \in DOMAIN tree :
        (q # << >> /\ tree[q].isTerminal) =>
            /\ tree[q].nch = 0
            /\ GameOutcome(tree[q].board) = "loss" => tree[q].terminalValue < 0
            /\ GameOutcome(tree[q].board) = "draw" => tree[q].terminalValue = 0

\* C11: the gain SEE.evaluate returns for a capture is the value of the
\* captured piece when no piece of the other side can retake on the
\* destination after the capture, and that value minus the value of the
\* capturing piece when one can.
C11_SEEGain ==
    seeMove # NoSeeMove =>
        seeGain = GetPieceValue(GetPieceType(squares[seeMove[2]]))
                    - (IF \E s \in 0..63 :
                             GeneratesCapture(MakeMove(squares, seeMove), -turn,
                                              s, seeMove[2])
                       THEN GetPieceValue(GetPieceType(squares[seeMove[1]]))
                       ELSE 0)

\* C12: in the two-move position, once 200 simulations of a search have
\* run, the move worth +0.8 (the first child) has strictly more visits than
\* the move worth -0.5 (the second child).
C12_BetterMoveMoreVisited ==
    (pc = "loop" /\ request.pos = ScenarioRoot /\ nodes >= 200)
        => tree[<<1>>].visitCount > tree[<<2>>].visitCount

\* The first child of the root, in generation order, among those with the
\* greatest visitCount.
FirstMaxChild(t) ==
    CHOOSE k \in 1..t[<< >>].nch :
        /\ \A j \in 1..t[<< >>].nch : t[<<j>>].visitCount <= t[<<k>>].visitCount
        /\ \A j \in 1..(k - 1) : t[<<j>>].visitCount < t[<<k>>].visitCount

\* C13: with temperature 0 the only move getBestMove can return on a tree is
\* the move of the first child with the greatest visitCount, and that is
\* the move a search ending on the tree answers with.
C13_GreedyFirstMax ==
    [][(temperature = 0 /\ HasRoot(tree) /\ tree[<< >>].nch > 0) =>
          /\ BestMoveChoices(tree, << >>, temperature) = {FirstMaxChild(tree)}
          /\ (pc = "loop" /\ pc' = "idle") =>
                 result'.move = tree[<<FirstMaxChild(tree)>>].move]_vars

\* C13 witness: a search with temperature 0 has answered with the first
\* child of a root whose two children share the greatest visitCount.
C13_Witness ==
    /\ temperature = 0
    /\ result.answered
    /\ result.sims >= 2
    /\ tree[<< >>].nch = 2
    /\ tree[<<1>>].visitCount = tree[<<2>>].visitCount
    /\ tree[<<1>>].visitCount >= 1
    /\ result.move = tree[<<1>>].move

\* C14: right after expand(), with no noise applied yet, the node has one
\* child per generated move, in the order the moves were generated, each
\* with its prior, and the priors sum to 1 within PriorTolerance.
PriorTolerance == 100
PriorSum == SeqSum([i \in 1..Len(children) |-> children[i].prior], 1)
C14_PriorsPerMoveSumToOne ==
    children # << >> =>
        LET moves == Generate(squares, turn, CastlingRights(castling), NoSquare, 0)
        IN  /\ Len(children) = Len(moves)
            /\ \A i \in 1..Len(moves) : children[i].move = moves[i]
            /\ \A i, j \in 1..Len(children) :
                   i < j => children[i].move.from <= children[j].move.from
            /\ {<<c.move.from, c.move.to>> :
                    c \in {children[i] : i \in 1..Len(children)}}
                 \cap {m \in (0..63) \X (0..63) : squares[m[2]] # EMPTY}
                   = GenerateCaptures(squares, turn)
            /\ \A i \in 1..Len(children) : children[i].prior >= 0
            /\ Abs(PriorSum - PriorUnit) <= PriorTolerance
C14_Witness ==
    /\ Len(children) >= 10
    /\ \E i, j \in 1..Len(children) :
           /\ squares[children[i].move.to] # EMPTY
           /\ children[j].move.castle # ""
           /\ children[i].prior # children[j].prior
           /\ children[i].prior > 0 /\ children[j].prior > 0
\* C15: the bot is never stuck for good: whenever processingMove is true
\* it is false again later, with the timers of the browser running and no
\* call of the console API.
C15_NeverPermanentlyStuck ==
    State.processingMove ~> ~State.processingMove
C15_Witness ==
    /\ ~State.processingMove
    /\ lastEvent = "recovery"
    /\ searching # {}
    /\ \A i \in 1..Len(timers) : timers[i].kind = "retry"
    /\ Len(timers) = 1

\* C16: processingMove is never true for more than MaxProcessingTime
\* milliseconds in a row.
C16_StuckAtMostMaxProcessingTime ==
    State.processingMove => State.processingTime <= MaxProcessingTime
C16_Witness ==
    /\ State.processingMove
    /\ State.processingTime = EngineTimeout
    /\ \E i \in 1..Len(timers) : timers[i].kind = "engineTimeout" /\ timers[i].due = 0

\* C17: after a recovery the position is retried and the retry succeeds:
\* later a move is sent and the bot is idle, with the timers of the browser
\* running, the socket open, no call throwing and the engine answering
\* every search.
C17_RetrySucceeds ==
    (lastEvent = "recovery") ~> (lastEvent = "sent" /\ ~State.processingMove)

MoveObject(m) ==
    CASE m = <<1, 2>> -> NewMove(52, 36)
      [] m = <<1, 3>> -> [NewMove(12, 4) EXCEPT !.promotion = W_QUEEN]
      [] m = <<2, 4>> -> [NewMove(54, 62) EXCEPT !.promotion = B_KNIGHT]
      [] m = <<4, 5>> -> [NewMove(8, 1) EXCEPT !.promotion = W_ROOK]
      [] m = <<6, 5>> -> [NewMove(48, 56) EXCEPT !.promotion = B_QUEEN]
      [] m = <<6, 4>> -> [NewMove(55, 63) EXCEPT !.promotion = B_BISHOP]
      [] OTHER -> NewMove(m[1] % 64, m[2] % 64)

\* String.fromCharCode(97 + (sq % 8))
FileChar(sq) == <<"a", "b", "c", "d", "e", "f", "g", "h">>[(sq % 8) + 1]

\* Variant of the rank that counts the ranks from 0.
RankCharFromZero(sq) ==
    <<"0", "1", "2", "3", "4", "5", "6", "7">>[(7 - (sq \div 8)) + 1]

\* 8 - Math.floor(sq / 8), as the string concatenation prints it
RankChar(sq) ==
    LET rank == 8 - (sq \div 8)
    IN  IF rank \in 0..9
        THEN <<"0", "1", "2", "3", "4", "5", "6", "7", "8", "9">>[rank + 1]
        ELSE "?"

\* promChars[type === 5 ? 1 : type === 4 ? 2 : type === 3 ? 3 : 4] || 'q'
PromotionChar(promotion) ==
    LET type == promotion % 7
        promChars == <<"", "q", "r", "b", "n">>
        char == promChars[(IF type = 5 THEN 1 ELSE IF type = 4 THEN 2
                           ELSE IF type = 3 THEN 3 ELSE 4) + 1]
    IN  IF char = "" THEN "q" ELSE char

\* MoveGenerator.moveToUCI(move): the token as its sequence of characters
MoveToUCI(move) ==
    <<FileChar(move.from), RankChar(move.from),
      FileChar(move.to), RankChar(move.to)>>
    \o (IF move.promotion # 0 THEN <<PromotionChar(move.promotion)>>
        ELSE << >>)

\* The search loop runs to its end: Date.now() advances while search()
\* runs, and search() returns once the loop has ended.
SpecEngineFair == Spec /\ WF_vars(Tick) /\ WF_vars(Finish)

\* A token that matches ^[a-h][1-8][a-h][1-8][qrbnQRBN]?$
ValidUci(token) ==
    /\ Len(token) \in {4, 5}
    /\ token[1] \in {"a", "b", "c", "d", "e", "f", "g", "h"}
    /\ token[2] \in {"1", "2", "3", "4", "5", "6", "7", "8"}
    /\ token[3] \in {"a", "b", "c", "d", "e", "f", "g", "h"}
    /\ token[4] \in {"1", "2", "3", "4", "5", "6", "7", "8"}
    /\ Len(token) = 5 => token[5] \in {"q", "r", "b", "n", "Q", "R", "B", "N"}

\* The 'go' answered with 'bestmove ' + moveToUCI(bestMove), a valid token
BestMoveAnswered ==
    /\ result.answered
    /\ result.move # NoMove
    /\ ValidUci(MoveToUCI(MoveObject(result.move)))

\* C19: once a position is set, a 'go' on a position with a legal move is
\* eventually answered with a 'bestmove' line whose move token matches
\* ^[a-h][1-8][a-h][1-8][qrbnQRBN]?$: an answer for such a position is never
\* 'bestmove (none)', and a search that entered its loop ends with such an
\* answer.
C19_GoAnsweredWithMove ==
    /\ []((result.answered /\ LegalMoves(result.pos) # << >>) => BestMoveAnswered)
    /\ (pc = "loop" /\ LegalMoves(request.pos) # << >>) ~> BestMoveAnswered

\* C19 witness: the second search of a run has answered a position that
\* has legal moves with a promotion, a five-character token.
C19_Witness ==
    /\ BestMoveAnswered
    /\ searches = 2
    /\ LegalMoves(result.pos) # << >>
    /\ Len(MoveToUCI(MoveObject(result.move))) = 5
    /\ result.sims >= 1

\* C20: the value a simulation hands to backpropagate lies in [-1, 1],
\* whether it is the normalised evaluation or a terminal node's
\* terminalValue, so at every node |totalValue| <= visitCount.
C20_ValuesWithinUnit ==
    /\ Abs(lastSim.value) <= VScale
    /\ \A q \in DOMAIN tree :
           Abs(tree[q].totalValue) <= tree[q].visitCount * VScale

\* C21: a simulation that ends at a non-terminal leaf evaluates the position
\* of the node its selection stopped at and starts backpropagation at that
\* node, also in the simulation that expands it.
C21_LeafEvaluated ==
    [][SimulationStep =>
         LET selected == Descend(tree, << >>, board)
         IN  ~tree'[selected].isTerminal =>
                 /\ lastSim'.leaf = selected
                 /\ lastSim'.value =
                        EvaluatePosition(BoardOf(tree, selected, board))]_vars

\* C21 amended: a simulation whose selection stops at a non-terminal leaf
\* evaluates that leaf's own position and backs up from it, except in the
\* simulation that expands the leaf: that one moves on to children[0],
\* evaluates the child's position and starts backpropagation at the child.
C21_LeafOrFirstChildEvaluated ==
    [][SimulationStep =>
         LET selected == Descend(tree, << >>, board)
             expands == /\ tree[selected].visitCount >= MinVisitsForExpansion
                        /\ ~tree[selected].isExpanded
                        /\ ~tree[selected].isTerminal
             target == IF expands /\ tree'[selected].nch > 0
                       THEN Append(selected, 1) ELSE selected
         IN  ~tree'[selected].isTerminal =>
                 /\ lastSim'.leaf = target
                 /\ lastSim'.value =
                        EvaluatePosition(BoardOf(tree', target, board))
                 /\ tree'[target].visitCount =
                        (IF target \in DOMAIN tree
                         THEN tree[target].visitCount ELSE 0) + 1]_vars

\* C21 witness: the last simulation expanded a child of the root and
\* backed up the value of that child's first child.
C21_Witness ==
    /\ pc = "loop"
    /\ Len(lastSim.leaf) = 2
    /\ lastSim.leaf[2] = 1
    /\ tree[lastSim.leaf].visitCount = 1
    /\ tree[Parent(lastSim.leaf)].visitCount = 2
    /\ lastSim.value = EvaluatePosition(tree[lastSim.leaf].board)
    /\ lastSim.value # EvaluatePosition(tree[Parent(lastSim.leaf)].board)

\* C22: at every point of a search, a node whose visitCount is 0 has no
\* children or is not expanded.
C22_UnvisitedNotExpanded ==
    \A q \in DOMAIN tree :
        tree[q].visitCount = 0 => (tree[q].nch = 0 \/ ~tree[q].isExpanded)

\* C22 amended: every node other than the root whose visitCount is 0 has no
\* children and is not expanded, because a simulation expands such a node
\* only when it finds it already visited; the root is expanded by search()
\* before the first simulation, with visitCount 0 in a first search.
C22_UnvisitedNotExpandedBelowRoot ==
    /\ [](\A q \in DOMAIN tree \ {<< >>} :
            tree[q].visitCount = 0 => (tree[q].nch = 0 /\ ~tree[q].isExpanded))
    /\ [][\A q \in (DOMAIN tree' \cap DOMAIN tree) \ {<< >>} :
            (tree'[q].isExpanded /\ ~tree[q].isExpanded)
                => tree[q].visitCount >= MinVisitsForExpansion]_vars

\* C22 witness: during a search a node below the root has been expanded
\* after being visited, while another node below the root is still
\* unvisited and not expanded.
C22_Witness ==
    /\ pc = "loop"
    /\ \E q, r \in DOMAIN tree \ {<< >>} :
          /\ tree[q].isExpanded
          /\ tree[q].visitCount >= 2
          /\ tree[Append(q, 1)].visitCount >= 1
          /\ tree[r].visitCount = 0
          /\ ~tree[r].isExpanded

\* C23: a node is expanded at most once: once a node is expanded, no later
\* simulation or search creates, replaces or appends children for it, so its
\* children stay the same nodes, with the moves, positions and statistics
\* they had.
C23_ExpandedOnce ==
    [][\A q \in DOMAIN tree :
          tree[q].isExpanded =>
              /\ q \in DOMAIN tree'
              /\ tree'[q].isExpanded
              /\ tree'[q].nch = tree[q].nch
              /\ \A k \in 1..tree[q].nch :
                     /\ tree'[Append(q, k)].move = tree[Append(q, k)].move
                     /\ tree'[Append(q, k)].board = tree[Append(q, k)].board
                     /\ tree'[Append(q, k)].visitCount
                            >= tree[Append(q, k)].visitCount
                     /\ tree[Append(q, k)].isExpanded
                            => tree'[Append(q, k)].isExpanded]_vars

\* C23 witness: a second search has started on the root the first search
\* expanded, whose child has been visited and expanded in its turn.
C23_Witness ==
    /\ searches = 2
    /\ pc = "loop"
    /\ nodes = 0
    /\ tree[<< >>].isExpanded
    /\ tree[<< >>].visitCount >= 2
    /\ \E k \in 1..tree[<< >>].nch :
          tree[<<k>>].isExpanded /\ tree[<<k>>].visitCount >= 2

\* C25: in one simulation of the loader's engine every node of the selection
\* path, the node the selection stopped at included, is backed up once, in
\* leaf-to-root order: that node receives the value and the node d edges
\* above it receives the value negated d times.
C25_LeafToRootBackup ==
    [][(searchPc = "awaitIterate" /\ iterations' = iterations + 1) =>
          LET s == IterateSelect(root, << >>, << >>)
              value == LoaderQ(s.tree[s.node])
              depth == Len(s.node)
          IN  \A q \in Prefixes(s.node) :
                  /\ root'[q].visitCount = root[q].visitCount + 1
                  /\ root'[q].totalValue =
                         FAdd(root[q].totalValue,
                              IF value = NaN THEN NaN
                              ELSE Sign(depth - Len(q)) * value)]_vars

\* A call of search() is suspended inside iterate(): a simulation in flight.
InFlight(c) == calls[c].pc \in {"iterateAwaitEvaluate", "iterateAwaitExpand"}

\* C24: the root is never replaced while a simulation is in flight, and every
\* simulation works on one tree from its selection to the reverting of its
\* virtual losses (a step changes the nodes of the present root only and
\* leaves every tree built before as it is), also when a second search()
\* starts while the first is suspended.
C24_NoRootSwapInFlight ==
    [][/\ rootRef' # rootRef => \A c \in Calls : ~InFlight(c)
       /\ \A c \in Calls :
              InFlight(c) => (calls[c].flight.ref = rootRef
                              /\ calls'[c].flight.ref \in {0, rootRef'})
       /\ \A r \in 1..Len(heap) :
              heap'[r] # heap[r] => (r = rootRef /\ r = rootRef')]_vars

\* C24 witness: the second call's root replaced the first call's root while
\* the first call was suspended after a simulation, and the first call then
\* ran a whole simulation on the second call's root.
C24_Witness ==
    /\ Len(heap) = 2
    /\ rootRef = 2
    /\ iterated[1].by = 1
    /\ iterated[1].count >= 1
    /\ iterated[2].by = 2
    /\ calls[1].pc = "awaitIterate"
    /\ calls[1].lastRef = 2
    /\ calls[2].pc = "awaitExpand"
    /\ heap[2][<< >>].visitCount = 1
    /\ \A q \in DOMAIN heap[2] : heap[2][q].virtualLoss = 0


\* C26: a simulation adds its virtual loss to the nodes of its selection
\* path and removes exactly that after backpropagation, so whenever no
\* simulation is in flight every node has virtualLoss 0, and visitCount and
\* totalValue hold the backed-up visits and values only.
C26_NoVirtualLossResidue ==
    (\A c \in Calls : ~InFlight(c)) =>
        \A r \in 1..Len(heap) :
            /\ \A q \in DOMAIN heap[r] : heap[r][q].virtualLoss = 0
            /\ heap[r][<< >>].visitCount = iterated[r].count
            /\ heap[r][<< >>].totalValue = iterated[r].value
            /\ \A q \in DOMAIN heap[r] \ {<< >>} :
                   heap[r][q].visitCount = 0 /\ heap[r][q].totalValue = 0

\* C26 witness: two simulations have returned on the present root, each
\* having put its virtual loss on the root and taken it off again.
C26_Witness ==
    /\ rootRef = 1
    /\ iterated[1].count = 2
    /\ heap[1][<< >>].visitCount = 2
    /\ heap[1][<< >>].virtualLoss = 0
    /\ calls[1].pc = "awaitIterate"
    /\ calls[2].pc = "awaitEvaluate"

\* C27: with temperature > 0 getBestMove returns the first child, in
\* generation order, whose cumulative weight visitCount^(1/temperature)
\* exceeds the sample drawn in [0, sum of the weights); a child of weight 0
\* is never returned while another child has positive weight.
C27_FirstExceedingSample ==
    draw # NoDraw =>
        LET weights == Weights(draw.visits, draw.temperature)
            sum == WeightSum(weights)
            cumulative(i) == WeightSum(SubSeq(weights, 1, i))
            sample == (sum * draw.random) \div 4
        IN  /\ sum > 0 =>
                  /\ cumulative(draw.child) > sample
                  /\ \A j \in 1..(draw.child - 1) : cumulative(j) <= sample
            /\ sum > 0 => weights[draw.child] > 0

\* C28: a 'stop' received after a 'go' and before that search has finished
\* ends the search at the next simulation boundary: once it is received the
\* search runs no further pass before its bestmove.
C28_StopEndsSearch ==
    [][stopReceived => (slice'.running => slice'.i <= slice.i)]_vars

\* C29: every move the bot sends was computed for the position that is
\* STATE.currentFen when it is sent.
C29_SentForCurrentPosition ==
    lastSent.move.by = "engine" => lastSent.move.for = lastSent.position

\* C30: every position reported while the engine is ready is eventually
\* given to the engine or answered from the book.
C30_UpdateEventuallyAnalysed ==
    \A fen \in Fens : (fen \in awaiting) ~> (fen \notin awaiting)

====
